---- MODULE Spec2Model ----
(***************************************************************************)
(* Pairing, TLS trust and session identification of cosmic-connect.       *)
(*                                                                         *)
(*   Spec      one PairingHandler (pairing/handler.rs) driven by every    *)
(*             public operation, with the trust-store directory and the   *)
(*             outcomes of its file operations.                            *)
(*   SpecPair  two PairingHandlers joined by two reliable FIFO channels.  *)
(*   SpecTls   the TLS verifiers (transport/tls_config.rs) and the        *)
(*             session task of the connection manager                     *)
(*             (connection/manager.rs).                                    *)
(***************************************************************************)
EXTENDS Integers, Sequences, FiniteSets, TLC

(* ---------------------------------------------------------------------- *)
(* Bounds                                                                  *)
(* ---------------------------------------------------------------------- *)
NumDevices == 2
MaxCert == 2
MaxRequests == 2

Devices == 1..NumDevices
Certs == 1..MaxCert

(* ---------------------------------------------------------------------- *)
(* pairing/handler.rs : values                                             *)
(* ---------------------------------------------------------------------- *)
PairingStatus == {"Unpaired", "Requested", "RequestedByPeer", "Paired"}

\* A packet as far as PairingPacket::from_packet reads it: its type and the
\* boolean body field "pair" ("missing" when the body has no such field).
\* The timestamp that request() and accept() add is read by no code here.
Packet(t, p) == [packet_type |-> t, pair |-> p]
NoPacket == Packet("", "missing")
PacketTypes == {"cconnect.pair", "cconnect.ping"}
InPackets ==
    {Packet("cconnect.pair", p) : p \in {"true", "false", "missing"}}
        \cup {Packet("cconnect.ping", "missing")}

PairingPacket_request == Packet("cconnect.pair", "true")
PairingPacket_accept == Packet("cconnect.pair", "true")
PairingPacket_reject == Packet("cconnect.pair", "false")
PairingPacket_unpair == Packet("cconnect.pair", "false")

\* PairingPacket::from_packet: Err unless the type is cconnect.pair and the
\* body has a boolean "pair".
from_packet(packet) ==
    IF packet.packet_type # "cconnect.pair" THEN [ok |-> FALSE, pair |-> FALSE]
    ELSE IF packet.pair = "missing" THEN [ok |-> FALSE, pair |-> FALSE]
    ELSE [ok |-> TRUE, pair |-> (packet.pair = "true")]

\* The content of a file <device_id>.pem in cert_dir.
NoFile == [kind |-> "absent", tag |-> "", der |-> 0]
Truncated == [kind |-> "truncated", tag |-> "", der |-> 0]
pem_encode(tag, der) == [kind |-> "pem", tag |-> tag, der |-> der]
FileContents == {NoFile, Truncated} \cup {pem_encode("CERTIFICATE", c) : c \in Certs}

\* Outcomes of fs::write (File::create, then write_all): it succeeds, it fails
\* before the file is created or truncated ("fail"), or it fails after
\* File::create has created or truncated the file ("partial").
WriteOutcomes == {"ok", "fail", "partial"}
\* Outcomes of fs::remove_file.
RemoveOutcomes == {"ok", "fail"}

None == 0
EmptyMap == [d \in Devices |-> None]
EmptyDir == [d \in Devices |-> NoFile]

\* The fields of a PairingHandler the operations read and write, with the
\* directory cert_dir names.
Handler(s, m, f) == [status |-> s, paired_devices |-> m, files |-> f]

\* PairingHandler::new over an empty cert_dir.
PairingHandler_new == Handler("Unpaired", EmptyMap, EmptyDir)

\* What a call returns: ok (Ok or Err), the should_respond flag, the packet
\* returned, and the outcome of the file operation it performed, if any.
Ret(h, ok, respond, response, io) ==
    [h |-> h, ok |-> ok, respond |-> respond, response |-> response, io |-> io]

(* ---------------------------------------------------------------------- *)
(* pairing/handler.rs : operations, as functions of the handler            *)
(* ---------------------------------------------------------------------- *)
\* Mutant: the map is updated before the file is written, so a failed write
\* leaves the device in paired_devices.
store_device_certificate_insert_first(h, device_id, cert_der, w) ==
    LET m == [h EXCEPT !.paired_devices[device_id] = cert_der] IN
    IF w = "ok"
    THEN Ret([m EXCEPT !.files[device_id] = pem_encode("CERTIFICATE", cert_der)],
             TRUE, FALSE, NoPacket, w)
    ELSE IF w = "partial"
    THEN Ret([m EXCEPT !.files[device_id] = Truncated], FALSE, FALSE, NoPacket, w)
    ELSE Ret(m, FALSE, FALSE, NoPacket, w)

store_device_certificate(h, device_id, cert_der, w) ==
    IF w = "ok"
    THEN Ret([h EXCEPT !.files[device_id] = pem_encode("CERTIFICATE", cert_der),
                       !.paired_devices[device_id] = cert_der],
             TRUE, FALSE, NoPacket, w)
    ELSE IF w = "partial"
    THEN Ret([h EXCEPT !.files[device_id] = Truncated], FALSE, FALSE, NoPacket, w)
    ELSE Ret(h, FALSE, FALSE, NoPacket, w)

remove_device_certificate_file_only(h, device_id, r) ==
    IF h.files[device_id] # NoFile /\ r # "ok"
    THEN Ret(h, FALSE, FALSE, NoPacket, r)
    ELSE Ret([h EXCEPT !.files[device_id] = NoFile],
             TRUE, FALSE, NoPacket,
             IF h.files[device_id] # NoFile THEN r ELSE "none")

remove_device_certificate(h, device_id, r) ==
    IF h.files[device_id] # NoFile /\ r # "ok"
    THEN Ret(h, FALSE, FALSE, NoPacket, r)
    ELSE Ret([h EXCEPT !.files[device_id] = NoFile,
                       !.paired_devices[device_id] = None],
             TRUE, FALSE, NoPacket,
             IF h.files[device_id] # NoFile THEN r ELSE "none")

request_pairing(h) ==
    Ret([h EXCEPT !.status = "Requested"], TRUE, FALSE, PairingPacket_request, "none")

\* The arms of handle_pairing_packet for a packet with pair = true, one per
\* status matched.
\* Mutant: a request in Unpaired is accepted at once.
on_pair_Unpaired_auto_accept(h) ==
    Ret([h EXCEPT !.status = "Paired"], TRUE, TRUE, PairingPacket_accept, "none")

on_pair_Unpaired(h) ==
    Ret([h EXCEPT !.status = "RequestedByPeer"], TRUE, FALSE, NoPacket, "none")

\* Mutant: the accept is recorded but no confirmation is returned.
on_pair_Requested_no_reply(h, device_id, device_cert, w) ==
    LET s == store_device_certificate(h, device_id, device_cert, w) IN
    IF ~s.ok THEN s
    ELSE Ret([s.h EXCEPT !.status = "Paired"], TRUE, FALSE, NoPacket, s.io)

on_pair_Requested(h, device_id, device_cert, w) ==
    LET s == store_device_certificate(h, device_id, device_cert, w) IN
    IF ~s.ok THEN s
    ELSE Ret([s.h EXCEPT !.status = "Paired"], TRUE, TRUE, PairingPacket_accept, s.io)

on_pair_RequestedByPeer(h) ==
    Ret(h, TRUE, FALSE, NoPacket, "none")

\* Mutant: a pair=true packet from a paired device is answered with pair=true.
on_pair_Paired_reply(h) ==
    Ret(h, TRUE, TRUE, PairingPacket_accept, "none")

on_pair_Paired(h) ==
    Ret(h, TRUE, TRUE, NoPacket, "none")

\* The branch of handle_pairing_packet for a packet with pair = false.
on_pair_false(h, device_id, r) ==
    IF h.status = "Paired"
    THEN LET s == remove_device_certificate(h, device_id, r) IN
         IF ~s.ok THEN s
         ELSE Ret([s.h EXCEPT !.status = "Unpaired"], TRUE, FALSE, NoPacket, s.io)
    ELSE Ret([h EXCEPT !.status = "Unpaired"], TRUE, FALSE, NoPacket, "none")

handle_pairing_packet_stores_again(h, packet, device_id, device_cert, w, r) ==
    LET pairing == from_packet(packet) IN
    IF ~pairing.ok THEN Ret(h, FALSE, FALSE, NoPacket, "none")
    ELSE IF pairing.pair THEN
        CASE h.status = "Unpaired" -> on_pair_Unpaired(h)
          [] h.status = "Requested" -> on_pair_Requested(h, device_id, device_cert, w)
          [] h.status = "RequestedByPeer" -> on_pair_RequestedByPeer(h)
          [] h.status = "Paired" -> on_pair_Requested(h, device_id, device_cert, w)
    ELSE on_pair_false(h, device_id, r)

handle_pairing_packet(h, packet, device_id, device_cert, w, r) ==
    LET pairing == from_packet(packet) IN
    IF ~pairing.ok THEN Ret(h, FALSE, FALSE, NoPacket, "none")
    ELSE IF pairing.pair THEN
        CASE h.status = "Unpaired" -> on_pair_Unpaired(h)
          [] h.status = "Requested" -> on_pair_Requested(h, device_id, device_cert, w)
          [] h.status = "RequestedByPeer" -> on_pair_RequestedByPeer(h)
          [] h.status = "Paired" -> on_pair_Paired(h)
    ELSE on_pair_false(h, device_id, r)

\* Mutant: the check of the pending request is missing.
accept_pairing_unguarded(h, device_id, device_cert, w) ==
    LET s == store_device_certificate(h, device_id, device_cert, w) IN
    IF ~s.ok THEN s
    ELSE Ret([s.h EXCEPT !.status = "Paired"], TRUE, FALSE, PairingPacket_accept, s.io)

accept_pairing(h, device_id, device_cert, w) ==
    IF h.status # "RequestedByPeer" THEN Ret(h, FALSE, FALSE, NoPacket, "none")
    ELSE LET s == store_device_certificate(h, device_id, device_cert, w) IN
         IF ~s.ok THEN s
         ELSE Ret([s.h EXCEPT !.status = "Paired"], TRUE, FALSE,
                  PairingPacket_accept, s.io)

reject_pairing(h) ==
    Ret([h EXCEPT !.status = "Unpaired"], TRUE, FALSE, PairingPacket_reject, "none")

unpair(h, device_id, r) ==
    LET s == remove_device_certificate(h, device_id, r) IN
    IF ~s.ok THEN s
    ELSE Ret([s.h EXCEPT !.status = "Unpaired"], TRUE, FALSE, PairingPacket_unpair, s.io)

\* PairingHandler::is_paired
is_paired(h, device_id) ==
    h.paired_devices[device_id] # None \/ h.status = "Paired"

(* ---------------------------------------------------------------------- *)
(* transport/tls_config.rs : the two certificate verifiers                 *)
(* ---------------------------------------------------------------------- *)
\* A certificate is its DER byte string; two certificates are the same
\* number exactly when their bytes are equal.
\* KdeConnectServerCertVerifier::verify_client_cert
verify_client_cert(trusted_certs, end_entity) == end_entity \in trusted_certs

\* Mutant: the client verifier accepts the certificate of any paired device.
verify_server_cert_any_paired(expected_cert, end_entity, paired_certs) ==
    end_entity \in paired_certs

\* KdeConnectClientCertVerifier::verify_server_cert; paired_certs is what the
\* verifier does not look at: the certificates of all paired devices.
verify_server_cert(expected_cert, end_entity, paired_certs) ==
    end_entity = expected_cert

\* A handshake between a client (TlsConnection::connect) and a server
\* (TlsServer::accept) completes when neither verifier returns an error.
handshake(trusted_certs, client_cert, expected_cert, server_cert, paired_certs) ==
    /\ verify_client_cert(trusted_certs, client_cert)
    /\ verify_server_cert(expected_cert, server_cert, paired_certs)

(* ---------------------------------------------------------------------- *)
(* State                                                                   *)
(* ---------------------------------------------------------------------- *)
VARIABLES
    status,          \* PairingHandler.status
    paired_devices,  \* PairingHandler.paired_devices: device_id -> DER, or None
    files,           \* cert_dir: device_id -> content of <device_id>.pem
    call,            \* the last call on the handler: arguments, pre-state, result
    age,             \* SpecClock: seconds since the pending request began
    ends,            \* SpecPair: the PairingHandler of each side
    wire,            \* SpecPair: the pair packets in flight to each side
    cert_of,         \* SpecPair: the certificate of each side
    asked,           \* SpecPair: how often each side has called request_pairing
    registry,        \* SpecTls: DeviceManager, device_id -> Device
    server,          \* SpecTls: the TlsServer of ConnectionManager::start
    connections,     \* SpecTls: ConnectionManager.connections, device_id -> session
    sess,            \* SpecTls: the session tasks
    events,          \* SpecTls: what was sent on event_tx, in order
    hs,              \* SpecHandshake: the last TLS handshake attempted (history)
    io,              \* per session task: its mailbox, its TLS stream, and why it ended
    mcall,           \* the last send_packet on the manager, and its result
    link,            \* SpecLink: two managers and the connection between them
    bus,             \* SpecBus: the event channel, its lock and the subscribers
    disc,            \* SpecDiscovery: the DiscoveryService, its tasks and the clock
    store,           \* SpecLoad: cert_dir as load_paired_devices reads it, and the map
    plugin,          \* SpecPlugin: three plugin instances and the last call on them
    rds              \* SpecSession: the RemoteDesktop SessionManager and its server task

handlerVars == <<status, paired_devices, files, call, age>>
pairVars == <<ends, wire, cert_of, asked>>
tlsVars == <<registry, server, connections, sess, events, hs, io, mcall>>
modVars == <<store, plugin, rds>>
auxVars == <<bus, disc, store, plugin, rds>>
vars == <<status, paired_devices, files, call, age, ends, wire, cert_of, asked,
          registry, server, connections, sess, events, hs, io, mcall, link, bus, disc,
          store, plugin, rds>>

(* ---------------------------------------------------------------------- *)
(* One PairingHandler                                                      *)
(* ---------------------------------------------------------------------- *)
Self == Handler(status, paired_devices, files)

\* What from_packet makes of a packet: pair = true, pair = false, or an error.
Parsed(packet) ==
    IF ~from_packet(packet).ok THEN "invalid"
    ELSE IF from_packet(packet).pair THEN "true" ELSE "false"

\* The record of a call: what was called with which arguments in which
\* status, and what it returned.
Call(op, pair, d, c, pre_status, ret) ==
    [op |-> op, pair |-> pair, device_id |-> d, cert |-> c, pre_status |-> pre_status,
     ok |-> ret.ok, respond |-> ret.respond, response |-> ret.response, io |-> ret.io]

NoCall == Call("new", "none", 0, 0, "Unpaired",
               Ret(PairingHandler_new, TRUE, FALSE, NoPacket, "none"))

\* A request is pending in the status Requested or RequestedByPeer.
PAIRING_TIMEOUT == 30
Pending(s) == s \in {"Requested", "RequestedByPeer"}

\* The age of the pending request after a call: a call that starts a request
\* starts the clock, a call that leaves the request pending leaves it running.
AgeAfter(op, ret) ==
    IF Pending(ret.h.status) /\ ret.h.status = status /\ op # "request_pairing"
    THEN age ELSE 0

Apply(op, pair, d, c, ret) ==
    /\ status' = ret.h.status
    /\ age' = AgeAfter(op, ret)
    /\ paired_devices' = ret.h.paired_devices
    /\ files' = ret.h.files
    /\ call' = Call(op, pair, d, c, status, ret)
    /\ UNCHANGED <<pairVars, tlsVars, link, auxVars>>

\* An outcome is drawn for the file operation a call performs; a call that
\* performs none is taken once.
Drawn(ret, w, r) == ret.io = "none" => (w = "ok" /\ r = "ok")

InitHandler ==
    /\ status = PairingHandler_new.status
    /\ paired_devices = PairingHandler_new.paired_devices
    /\ files = PairingHandler_new.files
    /\ call = NoCall
    /\ age = 0

RequestPairing ==
    Apply("request_pairing", "none", 0, 0, request_pairing(Self))

HandlePairingPacket ==
    \E packet \in InPackets, d \in Devices, c \in Certs,
       w \in WriteOutcomes, r \in RemoveOutcomes :
        LET ret == handle_pairing_packet(Self, packet, d, c, w, r) IN
        /\ Drawn(ret, w, r)
        /\ Apply("handle_pairing_packet", Parsed(packet), d, c, ret)

AcceptPairing ==
    \E d \in Devices, c \in Certs, w \in WriteOutcomes :
        LET ret == accept_pairing(Self, d, c, w) IN
        /\ Drawn(ret, w, "ok")
        /\ Apply("accept_pairing", "none", d, c, ret)

RejectPairing ==
    Apply("reject_pairing", "none", 0, 0, reject_pairing(Self))

Unpair ==
    \E d \in Devices, r \in RemoveOutcomes :
        LET ret == unpair(Self, d, r) IN
        /\ Drawn(ret, "ok", r)
        /\ Apply("unpair", "none", d, 0, ret)

\* Time passes while a request is pending: the handler holds no timestamp
\* and no timer, and nothing in it runs. The clock stops one second past the
\* timeout.
TickSteps == {1, PAIRING_TIMEOUT}
Tick ==
    \E dt \in TickSteps :
        /\ Pending(status)
        /\ age <= PAIRING_TIMEOUT
        /\ age' = IF age + dt > PAIRING_TIMEOUT THEN PAIRING_TIMEOUT + 1 ELSE age + dt
        /\ UNCHANGED <<status, paired_devices, files, call, pairVars, tlsVars, link, auxVars>>

(* ---------------------------------------------------------------------- *)
(* Two PairingHandlers, A = 1 and B = 2, and the channels between them     *)
(* ---------------------------------------------------------------------- *)
Sides == {1, 2}
Other(a) == IF a = 1 THEN 2 ELSE 1

\* What is sent after a call: the packet it returned, if it returned one.
Sent(ret) == IF ret.ok /\ ret.response # NoPacket THEN <<ret.response>> ELSE <<>>

InitPairIdle ==
    /\ ends = [a \in Sides |-> PairingHandler_new]
    /\ wire = [a \in Sides |-> <<>>]
    /\ cert_of = [a \in Sides |-> 1]
    /\ asked = [a \in Sides |-> 0]

InitPair ==
    /\ ends = [a \in Sides |-> PairingHandler_new]
    /\ wire = [a \in Sides |-> <<>>]
    /\ cert_of \in [Sides -> Certs]
    /\ asked = [a \in Sides |-> 0]

\* The user of side a asks for pairing, or asks again while the answer is
\* outstanding: request_pairing, and the request is sent to the other side.
PairRequest(a) ==
    /\ ends[a].status \in {"Unpaired", "Requested"}
    /\ asked[a] < MaxRequests
    /\ LET ret == request_pairing(ends[a]) IN
        /\ ends' = [ends EXCEPT ![a] = ret.h]
        /\ wire' = [wire EXCEPT ![Other(a)] = Append(@, ret.response)]
    /\ asked' = [asked EXCEPT ![a] = @ + 1]
    /\ UNCHANGED <<cert_of, handlerVars, tlsVars, link, auxVars>>

\* Side a receives the next pair packet: handle_pairing_packet with the
\* sender's id and certificate, and the packet returned is sent back.
PairDeliver(a) ==
    /\ wire[a] # <<>>
    /\ LET ret == handle_pairing_packet(ends[a], Head(wire[a]), Other(a),
                                        cert_of[Other(a)], "ok", "ok") IN
        /\ ends' = [ends EXCEPT ![a] = ret.h]
        /\ wire' = [wire EXCEPT ![a] = Tail(@),
                                ![Other(a)] = @ \o Sent(ret)]
    /\ UNCHANGED <<cert_of, asked, handlerVars, tlsVars, link, auxVars>>

\* The user of side a confirms the pending request: accept_pairing, and the
\* packet returned is sent to the other side.
PairAccept(a) ==
    /\ ends[a].status = "RequestedByPeer"
    /\ LET ret == accept_pairing(ends[a], Other(a), cert_of[Other(a)], "ok") IN
        /\ ends' = [ends EXCEPT ![a] = ret.h]
        /\ wire' = [wire EXCEPT ![Other(a)] = @ \o Sent(ret)]
    /\ UNCHANGED <<cert_of, asked, handlerVars, tlsVars, link, auxVars>>

(* ---------------------------------------------------------------------- *)
(* Connection manager                                                      *)
(* ---------------------------------------------------------------------- *)
MaxSessions == 2
MaxEvents == 4

SessIds == 1..MaxSessions
OurCert == MaxCert + 1
NoId == 0
NoSess == 0

\* A frame as far as the session task reads it: the packet type and the body
\* field deviceId (NoId when absent or not a string).
Frame(t, id) == [packet_type |-> t, deviceId |-> id]
IdentityTypes == {"kdeconnect.identity", "cconnect.identity"}
FrameTypes == {"kdeconnect.identity", "kdeconnect.ping"}
Frames == [packet_type : FrameTypes, deviceId : Devices \cup {NoId}]
NoFrame == Frame("", NoId)

\* Device registry (DeviceManager): a device is unknown, known and unpaired
\* (no certificate_data), or paired with its certificate_data.
Device(known, cert, connected) ==
    [known |-> known, certificate_data |-> cert, connected |-> connected]
\* The certificate device d generated for itself.
OwnCert(d) == ((d - 1) % MaxCert) + 1
\* The registries a manager can be created over: K the known devices, P the
\* paired ones among them, each recorded with its own certificate.
Registries ==
    {[d \in Devices |->
        IF d \in P THEN Device(TRUE, OwnCert(d), FALSE)
        ELSE IF d \in K THEN Device(TRUE, None, FALSE)
        ELSE Device(FALSE, None, FALSE)] :
     K \in SUBSET Devices, P \in SUBSET Devices}
is_paired_device(dm, d) == dm[d].known /\ dm[d].certificate_data # None
paired_certs(dm) == {dm[d].certificate_data : d \in {e \in Devices : is_paired_device(dm, e)}}

\* DeviceManager::mark_connected / mark_disconnected: an unknown device is an
\* error, which the session task logs and ignores.
mark_connected(dm, id) ==
    IF dm[id].known THEN [dm EXCEPT ![id].connected = TRUE] ELSE dm
mark_disconnected(dm, id) ==
    IF dm[id].known THEN [dm EXCEPT ![id].connected = FALSE] ELSE dm

\* An event as sent on event_tx, with the session task that sent it. The
\* reason of a Disconnected event is the one the clean-up gives.
Reason(kind) == IF kind = "Disconnected" THEN "Connection closed" ELSE ""
Event(kind, id, s) ==
    [kind |-> kind, device_id |-> id, sess |-> s, reason |-> Reason(kind)]

\* A session task: where it is (pos), how the connection came about (accepted
\* or dialed, for which device, with which peer certificate), the device id
\* of the connection, and the first frame.
Session(pos, dir, dialed, peer_cert, id, first) ==
    [pos |-> pos, dir |-> dir, dialed |-> dialed, peer_cert |-> peer_cert,
     device_id |-> id, first |-> first]
FreeSession == Session("free", "none", NoId, None, NoId, NoFrame)

\* The handshake history: what the last handshake was given and whether it
\* completed. It is kept from NoHandshake on and not kept from Untraced on.
Handshake(dir, dialed, trusted_certs, client_cert, expected_cert, server_cert, ok) ==
    [dir |-> dir, dialed |-> dialed, trusted_certs |-> trusted_certs,
     client_cert |-> client_cert, expected_cert |-> expected_cert,
     server_cert |-> server_cert, established |-> ok]
NoHandshake == Handshake("none", NoId, {}, None, None, None, FALSE)
Untraced == Handshake("off", NoId, {}, None, None, None, FALSE)
Traced(h) == IF hs = Untraced THEN hs ELSE h

\* Sizes of a serialized packet: at the limit and one byte above it.
MAX_PACKET_SIZE == 10 * 1024 * 1024
Sizes == {MAX_PACKET_SIZE, MAX_PACKET_SIZE + 1}

\* A packet handed to send_packet: the n-th for its session, of a size.
Pkt(n, size) == [n |-> n, size |-> size]
\* A command on the mailbox of a session task.
Command(kind, pkt) == [kind |-> kind, packet |-> pkt]
Close == Command("Close", Pkt(0, 0))
\* A frame on the stream from the peer: the n-th written, its length prefix,
\* and whether its first bytes have been consumed by a read that was dropped.
InFrame(n, len, torn) == [n |-> n, len |-> len, torn |-> torn]

\* What a session task works with: mailbox (command_rx), the frames the peer
\* has written and the task has not consumed (inbound), how far the pending
\* receive_packet has read (rx), the packets written to the stream
\* (outbound); and as history the number of frames the peer wrote, the frames
\* emitted as PacketReceived, the packets send_packet accepted, and why the
\* loop ended.
\* waited is the time in seconds the pending read of receive_packet has
\* waited for its bytes.
SessionIo(mailbox, inbound, rx, outbound, wrote, delivered, accepted, cause, waited) ==
    [mailbox |-> mailbox, inbound |-> inbound, rx |-> rx, outbound |-> outbound,
     wrote |-> wrote, delivered |-> delivered, accepted |-> accepted, cause |-> cause,
     waited |-> waited]
NoIo == SessionIo(<<>>, <<>>, "idle", <<>>, 0, <<>>, <<>>, "none", 0)

ManagerCall(op, d, size, result) ==
    [op |-> op, device_id |-> d, size |-> size, result |-> result]
NoManagerCall == ManagerCall("none", NoId, 0, "Ok")

InitTlsIdle ==
    /\ registry = [d \in Devices |-> Device(FALSE, None, FALSE)]
    /\ server = [started |-> FALSE, trusted_certs |-> {}]
    /\ connections = [d \in Devices |-> NoSess]
    /\ sess = [s \in SessIds |-> FreeSession]
    /\ events = <<>>
    /\ hs = NoHandshake
    /\ io = [s \in SessIds |-> NoIo]
    /\ mcall = NoManagerCall

InitTls ==
    /\ registry \in Registries
    /\ server = [started |-> FALSE, trusted_certs |-> {}]
    /\ connections = [d \in Devices |-> NoSess]
    /\ sess = [s \in SessIds |-> FreeSession]
    /\ events = <<>>
    /\ hs = Untraced
    /\ io = [s \in SessIds |-> NoIo]
    /\ mcall = NoManagerCall

InitHandshake ==
    /\ registry \in Registries
    /\ server = [started |-> FALSE, trusted_certs |-> {}]
    /\ connections = [d \in Devices |-> NoSess]
    /\ sess = [s \in SessIds |-> FreeSession]
    /\ events = <<>>
    /\ hs = NoHandshake
    /\ io = [s \in SessIds |-> NoIo]
    /\ mcall = NoManagerCall

FreeSlots == {s \in SessIds : sess[s].pos = "free"}
NextSlot == CHOOSE s \in FreeSlots : \A t \in FreeSlots : s <= t
Room(n) == Len(events) + n <= MaxEvents

\* ConnectionManager::start: the TLS server is created with the certificates
\* of the devices paired at that moment, and ManagerStarted is emitted.
Start ==
    /\ ~server.started
    /\ Room(1)
    /\ server' = [started |-> TRUE, trusted_certs |-> paired_certs(registry)]
    /\ events' = Append(events, Event("ManagerStarted", NoId, NoSess))
    /\ UNCHANGED <<registry, connections, sess, hs, io, mcall, handlerVars, pairVars, link, auxVars>>

Accept_stops_on_error ==
    \E client_cert \in Certs \cup {OurCert}, expects_us \in BOOLEAN :
        /\ server.started
        /\ FreeSlots # {}
        /\ LET expected_cert == IF expects_us THEN OurCert ELSE client_cert
               ok == handshake(server.trusted_certs, client_cert, expected_cert,
                               OurCert, {}) IN
            /\ hs' = Traced(Handshake("in", NoId, server.trusted_certs,
                                       client_cert, expected_cert, OurCert, ok))
            /\ sess' = IF ok
                       THEN [sess EXCEPT ![NextSlot] =
                                Session("identity", "in", NoId, client_cert, NoId, NoFrame)]
                       ELSE sess
            /\ server' = IF ok THEN server ELSE [server EXCEPT !.started = FALSE]
        /\ UNCHANGED <<registry, connections, events, io, mcall, handlerVars, pairVars, link, auxVars>>

\* The accept loop: TlsServer::accept with a client that presents
\* client_cert and expects of us our certificate or another one (its own,
\* say). A completed handshake spawns a session task; a failed one is logged
\* and the loop goes on.
Accept ==
    \E client_cert \in Certs \cup {OurCert}, expects_us \in BOOLEAN :
        /\ server.started
        /\ FreeSlots # {}
        /\ LET expected_cert == IF expects_us THEN OurCert ELSE client_cert
               ok == handshake(server.trusted_certs, client_cert, expected_cert,
                               OurCert, {}) IN
            /\ hs' = Traced(Handshake("in", NoId, server.trusted_certs,
                                       client_cert, expected_cert, OurCert, ok))
            /\ sess' = IF ok
                       THEN [sess EXCEPT ![NextSlot] =
                                Session("identity", "in", NoId, client_cert, NoId, NoFrame)]
                       ELSE sess
        /\ UNCHANGED <<registry, server, connections, events, io, mcall, handlerVars, pairVars, link, auxVars>>

\* ConnectionManager::connect(device_id, addr): nothing to do when the device
\* has a session; an error when the device is unknown or has no certificate;
\* otherwise a handshake with whoever answers at addr (it presents
\* server_cert and trusts us or not), then set_device_id and a session task.
Connect ==
    \E d \in Devices, server_cert \in Certs \cup {OurCert}, trusts_us \in BOOLEAN :
        /\ connections[d] = NoSess
        /\ registry[d].known
        /\ registry[d].certificate_data # None
        /\ FreeSlots # {}
        /\ LET theirs == IF trusts_us THEN {OurCert} ELSE {}
               ok == handshake(theirs, OurCert, registry[d].certificate_data,
                               server_cert, paired_certs(registry)) IN
            /\ hs' = Traced(Handshake("out", d, theirs, OurCert,
                                       registry[d].certificate_data,
                                       server_cert, ok))
            /\ sess' = IF ok
                       THEN [sess EXCEPT ![NextSlot] =
                                Session("identity", "out", d, server_cert, d, NoFrame)]
                       ELSE sess
        /\ UNCHANGED <<registry, server, connections, events, io, mcall, handlerVars, pairVars, link, auxVars>>

\* Whether the session task takes the first frame as the peer's identity.
accepts_first_frame(dm, frame) == frame.deviceId # NoId

\* The session task, first frame received: without a deviceId the task
\* returns and the connection is dropped; with one it marks the device connected and emits Connected and
\* PacketReceived, and then waits for the connections lock.
FirstFrame(s) ==
    \E frame \in Frames :
        /\ sess[s].pos = "identity"
        /\ IF accepts_first_frame(registry, frame)
           THEN /\ Room(2)
                /\ registry' = mark_connected(registry, frame.deviceId)
                /\ events' = events \o
                        <<Event("Connected", frame.deviceId, s),
                          Event("PacketReceived", frame.deviceId, s)>>
                /\ sess' = [sess EXCEPT ![s].pos = "install",
                                        ![s].device_id = frame.deviceId,
                                        ![s].first = frame]
           ELSE /\ sess' = [sess EXCEPT ![s] = FreeSession]
                /\ UNCHANGED <<registry, events>>
        /\ UNCHANGED <<server, connections, hs, io, mcall, handlerVars, pairVars, link, auxVars>>

\* The session task, no first frame: receive_packet returns an error (read
\* timeout, oversized frame, undecodable bytes, closed stream) and the task
\* returns; the connection is dropped.
FirstFrameError(s) ==
    /\ sess[s].pos = "identity"
    /\ sess' = [sess EXCEPT ![s] = FreeSession]
    /\ UNCHANGED <<registry, server, connections, events, hs, io, mcall, handlerVars, pairVars, link, auxVars>>

\* The session task, connections lock taken: the session is inserted under
\* its device id, replacing the entry there.
Install(s) ==
    /\ sess[s].pos = "install"
    /\ connections' = [connections EXCEPT ![sess[s].device_id] = s]
    /\ sess' = [sess EXCEPT ![s].pos = "loop"]
    /\ UNCHANGED <<registry, server, events, hs, io, mcall, handlerVars, pairVars, link, auxVars>>

\* The session loop, a frame received: PacketReceived is emitted.
Receive(s) ==
    /\ sess[s].pos = "loop"
    /\ Room(1)
    /\ events' = Append(events, Event("PacketReceived", sess[s].device_id, s))
    /\ UNCHANGED <<registry, server, connections, sess, hs, io, mcall, handlerVars, pairVars, link, auxVars>>

CleanUp_silent_close(s, iov, why) ==
    /\ Room(1)
    /\ connections' = [connections EXCEPT ![sess[s].device_id] = NoSess]
    /\ registry' = mark_disconnected(registry, sess[s].device_id)
    /\ events' = IF why = "Close" THEN events
                 ELSE Append(events, Event("Disconnected", sess[s].device_id, s))
    /\ sess' = [sess EXCEPT ![s].pos = "closed"]
    /\ io' = [io EXCEPT ![s] = [iov EXCEPT !.mailbox = <<>>, !.inbound = <<>>,
                                              !.rx = "idle", !.cause = why]]

\* The clean-up after the session loop: the entry under the device id is
\* removed, the device is marked disconnected, Disconnected is emitted and
\* the task ends, its mailbox dropped and its connection closed. iov is what
\* the task has made of its stream, why is what broke the loop.
CleanUp(s, iov, why) ==
    /\ Room(1)
    /\ connections' = [connections EXCEPT ![sess[s].device_id] = NoSess]
    /\ registry' = mark_disconnected(registry, sess[s].device_id)
    /\ events' = Append(events, Event("Disconnected", sess[s].device_id, s))
    /\ sess' = [sess EXCEPT ![s].pos = "closed"]
    /\ io' = [io EXCEPT ![s] = [iov EXCEPT !.mailbox = <<>>, !.inbound = <<>>,
                                              !.rx = "idle", !.cause = why]]

\* The session loop ends on a receive error (I/O error, read timeout,
\* undecodable frame, the peer closing).
Teardown(s) ==
    /\ sess[s].pos = "loop"
    /\ CleanUp(s, io[s], "Receive error")
    /\ UNCHANGED <<server, hs, mcall, handlerVars, pairVars, link, auxVars>>

(* ---------------------------------------------------------------------- *)
(* The session loop, the mailbox and the stream                            *)
(* ---------------------------------------------------------------------- *)
MaxFrames == 2
MaxPackets == 2

\* TlsConnection::send_packet: a packet above the limit is refused before
\* anything is written; a write or flush succeeds or fails (w).
tls_send_packet(size, w) ==
    IF size > MAX_PACKET_SIZE THEN "InvalidPacket"
    ELSE IF w = "fail" THEN "Io" ELSE "Ok"

\* TlsConnection::receive_packet, after the length prefix: a length above the
\* limit is refused.
receive_length(len) == IF len > MAX_PACKET_SIZE THEN "InvalidPacket" ELSE "Ok"

\* The command the loop takes from the mailbox: the oldest.
next_command_newest(mailbox) == mailbox[Len(mailbox)]
next_command(mailbox) == Head(mailbox)

\* ConnectionManager::send_packet(device_id, packet): DeviceNotFound without
\* an entry for the device; otherwise SendPacket is put on the mailbox of the
\* entry (an error if its task is gone).
send_packet_any_task(conns, ss, iov, d, size) ==
    LET tasks == {s \in SessIds : ss[s].pos = "loop" /\ ss[s].device_id = d} IN
    IF tasks = {} THEN [result |-> "DeviceNotFound", io |-> iov]
    ELSE LET s == CHOOSE t \in tasks : TRUE
             pkt == Pkt(Len(iov[s].accepted) + 1, size) IN
         [result |-> "Ok",
          io |-> [iov EXCEPT ![s].mailbox = Append(@, Command("SendPacket", pkt)),
                             ![s].accepted = Append(@, pkt)]]
send_packet(conns, ss, iov, d, size) ==
    IF conns[d] = NoSess THEN [result |-> "DeviceNotFound", io |-> iov]
    ELSE IF ss[conns[d]].pos # "loop" THEN [result |-> "Io", io |-> iov]
    ELSE LET s == conns[d]
             pkt == Pkt(Len(iov[s].accepted) + 1, size) IN
         [result |-> "Ok",
          io |-> [iov EXCEPT ![s].mailbox = Append(@, Command("SendPacket", pkt)),
                             ![s].accepted = Append(@, pkt)]]

SendPacket ==
    \E d \in Devices, size \in Sizes :
        LET r == send_packet(connections, sess, io, d, size) IN
        /\ \A s \in SessIds : Len(r.io[s].accepted) <= MaxPackets
        /\ io' = r.io
        /\ mcall' = ManagerCall("send_packet", d, size, r.result)
        /\ UNCHANGED <<registry, server, connections, sess, events, hs,
                       handlerVars, pairVars, link, auxVars>>

\* ConnectionManager::disconnect(device_id): the entry is removed and Close
\* is put on its mailbox; the task handle aborted is the placeholder, not
\* the session task. It returns Ok in every case.
Disconnect ==
    \E d \in Devices :
        /\ IF connections[d] # NoSess
           THEN /\ connections' = [connections EXCEPT ![d] = NoSess]
                /\ io' = IF sess[connections[d]].pos = "loop"
                         THEN [io EXCEPT ![connections[d]].mailbox = Append(@, Close)]
                         ELSE io
           ELSE UNCHANGED <<connections, io>>
        /\ UNCHANGED <<registry, server, sess, events, hs, mcall, handlerVars, pairVars, link, auxVars>>

\* ConnectionManager::stop: the accept task is aborted, disconnect is called
\* for every device that has an entry in the table, and ManagerStopped is
\* emitted. The session tasks are not held anywhere (the handles in the
\* table are placeholders): a task with an entry is sent Close, a task
\* without one is left alone.
Stop ==
    /\ server.started
    /\ Room(1)
    /\ server' = [server EXCEPT !.started = FALSE]
    /\ connections' = [d \in Devices |-> NoSess]
    /\ io' = [s \in SessIds |->
                IF sess[s].pos = "loop" /\ \E d \in Devices : connections[d] = s
                THEN [io[s] EXCEPT !.mailbox = Append(@, Close)]
                ELSE io[s]]
    /\ events' = Append(events, Event("ManagerStopped", NoId, NoSess))
    /\ UNCHANGED <<registry, sess, hs, mcall, handlerVars, pairVars, link, auxVars>>

\* What is left of the stream when select! drops a pending receive_packet:
\* the bytes it has consumed are gone, and the frame it was reading is torn.
DropReceive(iov) ==
    IF iov.rx = "body"
    THEN [iov EXCEPT !.rx = "idle", !.inbound[1].torn = TRUE, !.waited = 0]
    ELSE [iov EXCEPT !.waited = 0]

\* The session loop, command branch: the pending receive_packet is dropped;
\* SendPacket writes the packet and a failed send breaks the loop; Close
\* breaks the loop.
HandleCommand(s) ==
    \E w \in {"ok", "fail"} :
        /\ sess[s].pos = "loop"
        /\ io[s].mailbox # <<>>
        /\ LET cmd == next_command(io[s].mailbox)
               iov == DropReceive(io[s])
               sent == tls_send_packet(cmd.packet.size, w) IN
            IF cmd.kind = "Close"
            THEN /\ w = "ok"
                 /\ CleanUp(s, iov, "Close")
            ELSE IF sent = "InvalidPacket"
            THEN /\ w = "ok"
                 /\ CleanUp(s, iov, "Send failed: packet too large")
            ELSE IF sent = "Io"
            THEN CleanUp(s, iov, "Send failed")
            ELSE /\ io' = [io EXCEPT ![s] =
                            [iov EXCEPT !.mailbox = Tail(@),
                                        !.outbound = Append(@, cmd.packet)]]
                 /\ UNCHANGED <<registry, connections, sess, events>>
        /\ UNCHANGED <<server, hs, mcall, handlerVars, pairVars, link, auxVars>>

\* The peer writes a frame.
PeerWrites(s) ==
    \E len \in Sizes :
        /\ sess[s].pos = "loop"
        /\ io[s].wrote < MaxFrames
        /\ io' = [io EXCEPT ![s].inbound = Append(@, InFrame(io[s].wrote + 1, len, FALSE)),
                            ![s].wrote = @ + 1]
        /\ UNCHANGED <<registry, server, connections, sess, events, hs, mcall,
                       handlerVars, pairVars, link, auxVars>>

\* The session loop, receive branch, the length prefix read: a length above
\* the limit breaks the loop, and so do the four bytes read out of a torn
\* frame; otherwise the body is awaited.
ReadLength(s) ==
    /\ sess[s].pos = "loop"
    /\ io[s].rx = "idle"
    /\ io[s].inbound # <<>>
    /\ LET f == Head(io[s].inbound) IN
        IF f.torn
        THEN CleanUp(s, io[s], "Receive error")
        ELSE IF receive_length(f.len) = "InvalidPacket"
        THEN CleanUp(s, io[s], "Packet too large")
        ELSE /\ io' = [io EXCEPT ![s].rx = "body", ![s].waited = 0]
             /\ UNCHANGED <<registry, connections, sess, events>>
    /\ UNCHANGED <<server, hs, mcall, handlerVars, pairVars, link, auxVars>>

\* The session loop, receive branch, the body read: PacketReceived is
\* emitted for the frame.
ReadBody(s) ==
    /\ sess[s].pos = "loop"
    /\ io[s].rx = "body"
    /\ Room(1)
    /\ events' = Append(events, Event("PacketReceived", sess[s].device_id, s))
    /\ io' = [io EXCEPT ![s].inbound = Tail(@), ![s].rx = "idle", ![s].waited = 0,
                        ![s].delivered = Append(@, Head(io[s].inbound).n)]
    /\ UNCHANGED <<registry, server, connections, sess, hs, mcall,
                   handlerVars, pairVars, link, auxVars>>

\* TLS_TIMEOUT of transport/tls.rs, in seconds: each read of receive_packet
\* (the length prefix, then the body) is given this long.
TLS_TIMEOUT == 30
\* KEEP_ALIVE_INTERVAL and CONNECTION_TIMEOUT of connection/manager.rs, in
\* seconds: the defaults of ConnectionConfig, which the session loop does
\* not read.
KEEP_ALIVE_INTERVAL == 30
CONNECTION_TIMEOUT == 60

\* Time passes while the session loop waits in receive_packet with nothing
\* to read and no command to handle; the loop itself sends nothing.
IdleSteps == {1, TLS_TIMEOUT}
IdleTick(s) ==
    \E dt \in IdleSteps :
        /\ sess[s].pos = "loop"
        /\ io[s].mailbox = <<>>
        /\ io[s].inbound = <<>>
        /\ io[s].waited < TLS_TIMEOUT
        /\ io' = [io EXCEPT ![s].waited =
                        IF @ + dt > TLS_TIMEOUT THEN TLS_TIMEOUT ELSE @ + dt]
        /\ UNCHANGED <<registry, server, connections, sess, events, hs, mcall,
                       handlerVars, pairVars, link, auxVars>>

\* The pending read has waited TLS_TIMEOUT: receive_packet returns the
\* "Read timeout" error and the loop breaks.
ReadTimeout(s) ==
    /\ sess[s].pos = "loop"
    /\ io[s].waited = TLS_TIMEOUT
    /\ CleanUp(s, io[s], "Read timeout")
    /\ UNCHANGED <<server, hs, mcall, handlerVars, pairVars, link, auxVars>>

\* A manager with one session installed and its loop running: every device
\* is paired, device d has connected and sent its identity, and the
\* subscriber has taken the events sent so far.
InitLoop ==
    \E d \in Devices :
        /\ registry = mark_connected([e \in Devices |-> Device(TRUE, OwnCert(e), FALSE)], d)
        /\ server = [started |-> TRUE, trusted_certs |-> paired_certs(registry)]
        /\ connections = [e \in Devices |-> IF e = d THEN 1 ELSE NoSess]
        /\ sess = [s \in SessIds |->
                    IF s = 1
                    THEN Session("loop", "in", NoId, OwnCert(d), d,
                                 Frame("kdeconnect.identity", d))
                    ELSE FreeSession]
        /\ events = <<>>
        /\ hs = Untraced
        /\ io = [s \in SessIds |-> NoIo]
        /\ mcall = NoManagerCall

(* ---------------------------------------------------------------------- *)
(* Pairing changes in the device registry while the manager runs           *)
(* ---------------------------------------------------------------------- *)
\* DeviceManager::store_pairing: the device is paired with cert_der.
store_pairing(dm, device_id, cert_der) ==
    [dm EXCEPT ![device_id] = Device(TRUE, cert_der, @.connected)]

\* DeviceManager::forget: the device is known and unpaired.
forget(dm, device_id) ==
    [dm EXCEPT ![device_id] = Device(@.known, None, @.connected)]

StorePairing ==
    \E d \in Devices, c \in Certs :
        /\ registry[d].certificate_data # c
        /\ registry' = store_pairing(registry, d, c)
        /\ UNCHANGED <<server, connections, sess, events, hs, io, mcall,
                       handlerVars, pairVars, link, auxVars>>

Forget ==
    \E d \in Devices :
        /\ is_paired_device(registry, d)
        /\ registry' = forget(registry, d)
        /\ UNCHANGED <<server, connections, sess, events, hs, io, mcall,
                       handlerVars, pairVars, link, auxVars>>

(* ---------------------------------------------------------------------- *)
(* Two managers: A = 1 dials, B = 2 listens                                *)
(* ---------------------------------------------------------------------- *)
\* The connection from A to B: the certificate each side presents, the
\* certificate A has recorded for B, the certificates B's server trusts;
\* whether the handshake was made; and on each side the position of the
\* session task, the frames in flight to it, whether it has emitted
\* Connected, whether it has installed the session, and what the last
\* send_packet for the peer returned.
Link(cert, a_expects, b_trusts, state, task, inbox, connected, installed, sent) ==
    [cert |-> cert, a_expects |-> a_expects, b_trusts |-> b_trusts, state |-> state,
     task |-> task, inbox |-> inbox, connected |-> connected,
     installed |-> installed, sent |-> sent]
NoLink(cert, a_expects, b_trusts) ==
    Link(cert, a_expects, b_trusts, "idle",
         [a \in Sides |-> "none"], [a \in Sides |-> <<>>],
         [a \in Sides |-> FALSE], [a \in Sides |-> FALSE], [a \in Sides |-> "none"])

InitLinkIdle == link = NoLink([a \in Sides |-> 1], 1, {})

InitLink ==
    \E cert \in [Sides -> Certs], a_expects \in Certs, b_trusts \in SUBSET Certs :
        link = NoLink(cert, a_expects, b_trusts)

\* A calls connect(B, addr) and B's accept loop takes the connection: after
\* the handshake each side spawns its session task, which begins by
\* waiting for the first frame. Neither connect nor the accept loop nor the
\* task writes anything to the stream.
LinkConnect ==
    /\ link.state = "idle"
    /\ LET ok == handshake(link.b_trusts, link.cert[1], link.a_expects,
                           link.cert[2], {}) IN
        link' = IF ok
                THEN [link EXCEPT !.state = "up",
                                  !.task = [a \in Sides |-> "identity"]]
                ELSE [link EXCEPT !.state = "failed"]
    /\ UNCHANGED <<handlerVars, pairVars, tlsVars, auxVars>>

\* A session task at its first receive_packet: with a frame in flight it
\* identifies the session as the single manager does (Connected, then the
\* insert); without one the read times out after 30 s, or fails because the
\* peer has gone, and the task returns.
LinkFirstFrame(a) ==
    /\ link.task[a] = "identity"
    /\ IF link.inbox[a] # <<>>
       THEN /\ accepts_first_frame(registry, Head(link.inbox[a]))
            /\ link' = [link EXCEPT !.inbox[a] = Tail(@), !.connected[a] = TRUE,
                                    !.installed[a] = TRUE, !.task[a] = "loop"]
       ELSE link' = [link EXCEPT !.task[a] = "returned"]
    /\ UNCHANGED <<handlerVars, pairVars, tlsVars, auxVars>>

\* The application on side a calls send_packet for the peer with its
\* identity packet: DeviceNotFound unless the session is installed.
LinkSendPacket(a) ==
    /\ link.state = "up"
    /\ IF link.installed[a]
       THEN link' = [link EXCEPT !.sent[a] = "Ok",
                                !.inbox[Other(a)] = Append(@, Frame("kdeconnect.identity", a))]
       ELSE link' = [link EXCEPT !.sent[a] = "DeviceNotFound"]
    /\ UNCHANGED <<handlerVars, pairVars, tlsVars, auxVars>>

(* ---------------------------------------------------------------------- *)
(* The event channel and its subscribers                                   *)
(* ---------------------------------------------------------------------- *)
MaxSubscribers == 2
Subscribers == 1..MaxSubscribers
NoSubscriber == 0

\* A call of subscribe(): the forwarder task it spawned (waiting for the
\* write lock of event_rx, forwarding, or ended), whether the receiver it
\* returned is still held, the number of events emitted before the call,
\* and the events its receiver has been sent.
Subscription(task, held, since, got) ==
    [task |-> task, held |-> held, since |-> since, got |-> got]
NoSubscription == Subscription("none", FALSE, 0, <<>>)

\* The manager's channel: the events sent on event_tx and not yet taken
\* from event_rx (events are numbered as emitted), the number emitted, and
\* the forwarder that holds the write lock of event_rx.
InitBusIdle ==
    bus = [queue |-> <<>>, emitted |-> 0, lock |-> NoSubscriber,
           sub |-> [i \in Subscribers |-> NoSubscription]]

\* A producer sends an event on event_tx: the channel is unbounded and the
\* send returns at once.
BusEmit ==
    /\ bus.emitted < MaxEvents
    /\ bus' = [bus EXCEPT !.emitted = @ + 1, !.queue = Append(@, bus.emitted + 1)]
    /\ UNCHANGED <<handlerVars, pairVars, tlsVars, link, disc, modVars>>

\* ConnectionManager::subscribe: a channel of its own is made, a forwarder
\* task is spawned and the receiver is returned.
BusSubscribe(i) ==
    /\ bus.sub[i].task = "none"
    /\ bus' = [bus EXCEPT !.sub[i] = Subscription("waiting", TRUE, bus.emitted, <<>>)]
    /\ UNCHANGED <<handlerVars, pairVars, tlsVars, link, disc, modVars>>

\* The forwarder takes the write lock of event_rx, which it keeps for as
\* long as it runs.
BusLock(i) ==
    /\ bus.sub[i].task = "waiting"
    /\ bus.lock = NoSubscriber
    /\ bus' = [bus EXCEPT !.lock = i, !.sub[i].task = "forwarding"]
    /\ UNCHANGED <<handlerVars, pairVars, tlsVars, link, disc, modVars>>

\* The forwarder that holds the lock takes the next event from event_rx
\* and sends it to its subscriber; when the receiver has been dropped the
\* send fails and the forwarder ends, the event gone with it.
BusForward(i) ==
    /\ bus.lock = i
    /\ bus.queue # <<>>
    /\ bus' = IF bus.sub[i].held
              THEN [bus EXCEPT !.queue = Tail(@),
                               !.sub[i].got = Append(@, Head(bus.queue))]
              ELSE [bus EXCEPT !.queue = Tail(@), !.lock = NoSubscriber,
                               !.sub[i].task = "ended"]
    /\ UNCHANGED <<handlerVars, pairVars, tlsVars, link, disc, modVars>>

\* The subscriber drops its receiver.
BusDrop(i) ==
    /\ bus.sub[i].task # "none"
    /\ bus.sub[i].held
    /\ bus' = [bus EXCEPT !.sub[i].held = FALSE]
    /\ UNCHANGED <<handlerVars, pairVars, tlsVars, link, disc, modVars>>

(* ---------------------------------------------------------------------- *)
(* The discovery service                                                   *)
(* ---------------------------------------------------------------------- *)
MaxRemote == 1
MaxClock == 36

Remotes == 1..MaxRemote
own_device_id == MaxRemote + 1
Absent == -1

DEFAULT_DEVICE_TIMEOUT == 30
CHECK_INTERVAL == 5

\* A datagram as recv_from returns it: bytes that Packet::from_bytes
\* decodes or not, and when they decode the packet type and the deviceId of
\* the body (NoId: the body has none).
Datagram(decodes, t, id) == [decodes |-> decodes, packet_type |-> t, deviceId |-> id]
NoDatagram == Datagram(FALSE, "", NoId)
DatagramTypes == {"kdeconnect.identity", "cconnect.identity", "cconnect.ping"}
Datagrams ==
    {Datagram(FALSE, "", NoId)} \cup
    {Datagram(TRUE, t, id) : t \in DatagramTypes, id \in Remotes \cup {own_device_id, NoId}}

\* Packet::is_type: the two protocol prefixes name the same packet type.
is_type(packet, packet_type) ==
    \/ packet.packet_type = packet_type
    \/ packet.packet_type \in IdentityTypes /\ packet_type \in IdentityTypes

\* DeviceInfo::from_identity_packet: an identity needs its deviceId.
from_identity_packet(packet) ==
    [ok |-> packet.deviceId # NoId, device_id |-> packet.deviceId]

Handled(result, accepted, id) == [result |-> result, accepted |-> accepted, device_id |-> id]

handle_packet_any_identity(data, own) ==
    IF ~data.decodes THEN Handled("Err", FALSE, NoId)
    ELSE IF ~is_type(data, "cconnect.identity") THEN Handled("Ok", FALSE, NoId)
    ELSE IF ~from_identity_packet(data).ok THEN Handled("Err", FALSE, NoId)
    ELSE Handled("Ok", TRUE, from_identity_packet(data).device_id)

\* handle_packet up to the clock reading: the datagram is decoded, a packet
\* of another type is passed over, the identity is parsed, and our own
\* identity is passed over; a failed decode or parse is the error the
\* listener logs.
handle_packet(data, own) ==
    IF ~data.decodes THEN Handled("Err", FALSE, NoId)
    ELSE IF ~is_type(data, "cconnect.identity") THEN Handled("Ok", FALSE, NoId)
    ELSE IF ~from_identity_packet(data).ok THEN Handled("Err", FALSE, NoId)
    ELSE IF from_identity_packet(data).device_id = own THEN Handled("Ok", FALSE, NoId)
    ELSE Handled("Ok", TRUE, from_identity_packet(data).device_id)

\* The listener task: where it is in handle_packet ("recv": in the receive
\* loop; "lock": the clock read, waiting for the last_seen lock; "send":
\* last_seen updated and the lock released, the event not yet sent), the
\* identity it is handling, and as history the last datagram it received
\* (Untaken when the history is not kept).
Listener(pos, id, current_time, is_new, datagram) ==
    [pos |-> pos, device_id |-> id, current_time |-> current_time,
     is_new |-> is_new, datagram |-> datagram]
Untaken == Datagram(FALSE, "off", NoId)
Taken(data) == IF disc.listener.datagram = Untaken THEN Untaken ELSE data

\* The timeout checker task: asleep until its next tick is due, or awake
\* with the clock read and waiting for the lock, or dead of a panic.
Checker(pos, current_time, due) ==
    [pos |-> pos, current_time |-> current_time, due |-> due]

DiscoveryEvent(kind, id) == [kind |-> kind, device_id |-> id]

\* The broadcaster task: whether its loop runs, and as history the
\* destinations and outcomes of the sends of its last tick, the success
\* count it logged, and whether a send had failed in a tick before.
Broadcaster(running, sent, outcome, success_count, failed_before) ==
    [running |-> running, sent |-> sent, outcome |-> outcome,
     success_count |-> success_count, failed_before |-> failed_before]

\* The service once start() has returned. overflow_checks is the build
\* profile: with it an integer overflow panics, without it the result
\* wraps.
InitDiscovery ==
    \E oc \in BOOLEAN :
        disc = [now |-> 0,
                last_seen |-> [d \in Remotes |-> Absent],
                events |-> <<>>,
                listener |-> Listener("recv", NoId, 0, FALSE, Untaken),
                checker |-> Checker("sleep", 0, 0),
                broadcaster |-> Broadcaster(TRUE, <<>>, <<>>, 0, FALSE),
                overflow_checks |-> oc]

\* The same with the history of the listener kept.
InitListen ==
    \E oc \in BOOLEAN :
        disc = [now |-> 0,
                last_seen |-> [d \in Remotes |-> Absent],
                events |-> <<>>,
                listener |-> Listener("recv", NoId, 0, FALSE, NoDatagram),
                checker |-> Checker("sleep", 0, 0),
                broadcaster |-> Broadcaster(TRUE, <<>>, <<>>, 0, FALSE),
                overflow_checks |-> oc]

InitDiscIdle ==
    disc = [now |-> 0,
            last_seen |-> [d \in Remotes |-> Absent],
            events |-> <<>>,
            listener |-> Listener("recv", NoId, 0, FALSE, Untaken),
            checker |-> Checker("sleep", 0, 0),
            broadcaster |-> Broadcaster(FALSE, <<>>, <<>>, 0, FALSE),
            overflow_checks |-> FALSE]

DiscRoom(n) == Len(disc.events) + n <= MaxEvents

\* The clock (SystemTime, in whole seconds) advances.
ClockSteps == {CHECK_INTERVAL}
DiscTick ==
    \E dt \in ClockSteps :
        /\ disc.now + dt <= MaxClock
        /\ disc' = [disc EXCEPT !.now = @ + dt]
        /\ UNCHANGED <<handlerVars, pairVars, tlsVars, link, bus, modVars>>

\* The listener receives a datagram and handle_packet runs up to the clock
\* reading. A datagram that is not taken leaves the listener in its loop.
ListenerReceive ==
    \E data \in Datagrams :
        /\ disc.listener.pos = "recv"
        /\ LET h == handle_packet(data, own_device_id) IN
            disc' = [disc EXCEPT !.listener =
                        IF h.accepted
                        THEN Listener("lock", h.device_id, disc.now, FALSE, Taken(data))
                        ELSE Listener("recv", NoId, 0, FALSE, Taken(data))]
        /\ UNCHANGED <<handlerVars, pairVars, tlsVars, link, bus, modVars>>

\* handle_packet under the write lock of last_seen: is_new is computed, the
\* clock reading is inserted, and the lock is released.
ListenerInsert ==
    /\ disc.listener.pos = "lock"
    /\ LET d == disc.listener.device_id IN
        disc' = [disc EXCEPT !.last_seen[d] = disc.listener.current_time,
                             !.listener.is_new = (disc.last_seen[d] = Absent),
                             !.listener.pos = "send"]
    /\ UNCHANGED <<handlerVars, pairVars, tlsVars, link, bus, modVars>>

\* handle_packet sends DeviceDiscovered or DeviceUpdated and returns.
ListenerSend ==
    /\ disc.listener.pos = "send"
    /\ DiscRoom(1)
    /\ disc' = [disc EXCEPT
                    !.events = Append(@, DiscoveryEvent(
                        IF disc.listener.is_new THEN "DeviceDiscovered"
                        ELSE "DeviceUpdated", disc.listener.device_id)),
                    !.listener.pos = "recv"]
    /\ UNCHANGED <<handlerVars, pairVars, tlsVars, link, bus, modVars>>

\* current_time - last_time > timeout on u64: when last_time is the later
\* reading the difference wraps to 2^64 - (last_time - current_time), which
\* exceeds every timeout (a build with overflow checks panics before).
exceeds_or_equal(current_time, last_time, timeout) ==
    IF current_time < last_time THEN TRUE
    ELSE current_time - last_time >= timeout

exceeds(current_time, last_time, timeout) ==
    IF current_time < last_time THEN TRUE
    ELSE current_time - last_time > timeout

\* The entries the scan of the timeout checker collects.
timed_out(last_seen_map, current_time) ==
    {d \in Remotes : /\ last_seen_map[d] # Absent
                     /\ exceeds(current_time, last_seen_map[d], DEFAULT_DEVICE_TIMEOUT)}

\* The orders in which a HashMap may yield the entries collected.
Orders(S) ==
    {q \in [1..Cardinality(S) -> S] :
        \A i, j \in 1..Cardinality(S) : q[i] = q[j] => i = j}

\* The timeout checker wakes on its tick and reads the clock.
CheckerTick ==
    /\ disc.checker.pos = "sleep"
    /\ disc.now >= disc.checker.due
    /\ disc' = [disc EXCEPT !.checker =
                    Checker("lock", disc.now, disc.checker.due + CHECK_INTERVAL)]
    /\ UNCHANGED <<handlerVars, pairVars, tlsVars, link, bus, modVars>>

\* The timeout checker under the write lock of last_seen: the entries that
\* have timed out are collected, removed, and DeviceTimeout is sent for
\* each. The subtraction of a later last_time panics in a build with
\* overflow checks, and the task is gone.
CheckerScan ==
    /\ disc.checker.pos = "lock"
    /\ LET cur == disc.checker.current_time
           overflow == \E d \in Remotes : disc.last_seen[d] # Absent
                                          /\ cur < disc.last_seen[d]
           gone == timed_out(disc.last_seen, cur) IN
        IF overflow /\ disc.overflow_checks
        THEN disc' = [disc EXCEPT !.checker.pos = "dead"]
        ELSE /\ DiscRoom(Cardinality(gone))
             /\ \E q \in Orders(gone) :
                    disc' = [disc EXCEPT
                        !.last_seen = [d \in Remotes |->
                                        IF d \in gone THEN Absent ELSE @[d]],
                        !.events = @ \o [i \in 1..Cardinality(gone) |->
                                            DiscoveryEvent("DeviceTimeout", q[i])],
                        !.checker.pos = "sleep"]
    /\ UNCHANGED <<handlerVars, pairVars, tlsVars, link, bus, modVars>>

MaxExtra == 1

DISCOVERY_PORT == 1816
kdeconnect_port == 1716
\* Addresses: 255.255.255.255, and the additional broadcast addresses of
\* the configuration by their position.
BROADCAST_ADDR == 0
additional_addrs == [i \in 1..MaxExtra |-> i]

SocketAddr(addr, port) == [addr |-> addr, port |-> port]

\* The list the broadcaster builds before its loop.
broadcast_addrs ==
    <<SocketAddr(BROADCAST_ADDR, DISCOVERY_PORT)>>
    \o [i \in 1..MaxExtra |-> SocketAddr(additional_addrs[i], DISCOVERY_PORT)]
    \o <<SocketAddr(BROADCAST_ADDR, kdeconnect_port)>>
    \o [i \in 1..MaxExtra |-> SocketAddr(additional_addrs[i], kdeconnect_port)]

\* What send_to returns.
SendOutcomes == {"ok", "NetworkUnreachable", "other"}

Successes(outcome, n) == Cardinality({i \in 1..n : outcome[i] = "ok"})

broadcast_round_until_error(addrs, outcome) ==
    LET failed == {i \in 1..Len(addrs) : outcome[i] # "ok"}
        n == IF failed = {} THEN Len(addrs)
             ELSE CHOOSE i \in failed : \A k \in failed : i <= k IN
    [sent |-> SubSeq(addrs, 1, n), success_count |-> Successes(outcome, n)]

\* One tick of the broadcaster: send_to for each address of the list in
\* turn, a failed send logged (or not, for NetworkUnreachable) and passed
\* over, the successes counted.
broadcast_round(addrs, outcome) ==
    [sent |-> addrs, success_count |-> Successes(outcome, Len(addrs))]

\* The interval of the broadcaster ticks.
BroadcastTick ==
    \E outcome \in [1..Len(broadcast_addrs) -> SendOutcomes] :
        /\ disc.broadcaster.running
        /\ LET round == broadcast_round(broadcast_addrs, outcome) IN
            disc' = [disc EXCEPT !.broadcaster =
                        Broadcaster(TRUE, round.sent, outcome, round.success_count,
                                    \/ disc.broadcaster.failed_before
                                    \/ disc.broadcaster.success_count
                                            < Len(disc.broadcaster.sent))]
        /\ UNCHANGED <<handlerVars, pairVars, tlsVars, link, bus, modVars>>

\* DiscoveryService::stop: the shutdown signal ends the broadcaster loop.
BroadcastShutdown ==
    /\ disc.broadcaster.running
    /\ disc' = [disc EXCEPT !.broadcaster.running = FALSE]
    /\ UNCHANGED <<handlerVars, pairVars, tlsVars, link, bus, modVars>>

(* ---------------------------------------------------------------------- *)
(* pairing/handler.rs : reloading the trust store                          *)
(* ---------------------------------------------------------------------- *)
\* The file stems of the *.pem files of cert_dir: one per peer device, and
\* the two files PairingHandler::new keeps for this device.
device_cert == NumDevices + 1
device_key == NumDevices + 2
OwnStems == {device_cert, device_key}
FileStems == Devices \cup OwnStems

\* The DER bytes of this device's certificate and key.
own_der == MaxCert + 1

\* A file fs::read cannot read (permissions, or a directory named d.pem).
Unreadable == [kind |-> "unreadable", tag |-> "", der |-> 0]

\* What a peer's file can hold: nothing (no such file), bytes that are no
\* PEM, a PEM block with the tag CERTIFICATE or with another tag, or
\* something that cannot be read.
\* Two different certificates are enough to tell whose bytes were loaded.
LoadCerts == {1, MaxCert}
PeerFiles ==
    {NoFile, Truncated, Unreadable, pem_encode("PRIVATE KEY", own_der)}
        \cup {pem_encode("CERTIFICATE", c) : c \in LoadCerts}

\* cert_dir after PairingHandler::new: device_cert.pem and device_key.pem.
NewDir ==
    [s \in FileStems |->
        IF s = device_cert THEN pem_encode("CERTIFICATE", own_der)
        ELSE IF s = device_key THEN pem_encode("PRIVATE KEY", own_der)
        ELSE NoFile]

\* fs::read_dir yields the files that exist.
Entries(dir) == {s \in FileStems : dir[s] # NoFile}

\* fs::read
fs_read(file) == [ok |-> file.kind # "unreadable", data |-> file]

\* pem::parse
pem_parse(data) == [ok |-> data.kind = "pem", tag |-> data.tag, contents |-> data.der]

\* What one pass of the loop of load_paired_devices does with the entry
\* <stem>.pem: "skip" (own file), "unreadable", "unparseable", "tag" (not a
\* certificate), or "insert".
\* Mutant: the own-identity files are not skipped.
load_entry_own_too(file, stem) ==
    IF ~fs_read(file).ok THEN "unreadable"
    ELSE IF ~pem_parse(fs_read(file).data).ok THEN "unparseable"
    ELSE IF pem_parse(fs_read(file).data).tag = "CERTIFICATE" THEN "insert"
    ELSE "tag"

load_entry(file, stem) ==
    IF stem = device_cert \/ stem = device_key THEN "skip"
    ELSE IF ~fs_read(file).ok THEN "unreadable"
    ELSE IF ~pem_parse(fs_read(file).data).ok THEN "unparseable"
    ELSE IF pem_parse(fs_read(file).data).tag = "CERTIFICATE" THEN "insert"
    ELSE "tag"

\* load_paired_devices over the directory dir. read_dir yields the entries
\* in no particular order; listed is the set of entries it yielded before
\* it returned an error, all of them when it returned none. The call
\* returns Err only for an error of read_dir or of its iterator.
load_paired_devices(m, dir, listed) ==
    [paired_devices |->
        [s \in FileStems |->
            IF s \in listed /\ load_entry(dir[s], s) = "insert"
            THEN pem_parse(fs_read(dir[s]).data).contents
            ELSE m[s]],
     ok |-> listed = Entries(dir)]

\* The result of the last load_paired_devices: whether read_dir listed the
\* whole directory, and whether the call returned Ok.
LoadRet(op, complete, ok) == [op |-> op, complete |-> complete, ok |-> ok]
NoLoad == LoadRet("new", TRUE, TRUE)

InitStore ==
    store = [dir |-> NewDir,
             paired_devices |-> [s \in FileStems |-> None],
             ret |-> NoLoad]

InitStoreIdle == InitStore

\* What is in cert_dir when the handler starts is what earlier runs and
\* other programs left there: a peer's file appears, changes or disappears.
PlaceFile ==
    \E d \in Devices, file \in PeerFiles :
        /\ store.dir[d] # file
        /\ store' = [store EXCEPT !.dir[d] = file]
        /\ UNCHANGED <<handlerVars, pairVars, tlsVars, link, bus, disc, plugin, rds>>

LoadPairedDevices ==
    \E listed \in SUBSET Entries(store.dir) :
        LET ret == load_paired_devices(store.paired_devices, store.dir, listed) IN
        /\ store' = [store EXCEPT
                        !.paired_devices = ret.paired_devices,
                        !.ret = LoadRet("load_paired_devices",
                                        listed = Entries(store.dir), ret.ok)]
        /\ UNCHANGED <<handlerVars, pairVars, tlsVars, link, bus, disc, plugin, rds>>

(* ---------------------------------------------------------------------- *)
(* plugins : connectivity_report.rs, networkshare.rs, power.rs             *)
(* ---------------------------------------------------------------------- *)
PACKET_TYPE_CONNECTIVITY_REPORT == "cconnect.connectivity_report"
PACKET_TYPE_KDECONNECT_CONNECTIVITY == "kdeconnect.connectivity_report"
PACKET_TYPE_SFTP == "kdeconnect.sftp"
PACKET_TYPE_CCONNECT_SFTP == "cconnect.sftp"

\* The subscription ids a connectivity report can name.
SubIds == {"0", "1"}

\* A packet as the plugins read it: its type, whether serde_json reads the
\* body as the structure the plugin expects, the keys of signalStrengths,
\* and the boolean field "inhibit" ("missing" when the body has none).
PluginPacket(t, parses, signals, inhibit) ==
    [packet_type |-> t, parses |-> parses, signalStrengths |-> signals,
     inhibit |-> inhibit]

PluginPackets ==
    {PluginPacket(t, TRUE, s, "missing") :
        t \in {PACKET_TYPE_CONNECTIVITY_REPORT, PACKET_TYPE_KDECONNECT_CONNECTIVITY},
        s \in SUBSET SubIds}
    \cup {PluginPacket(t, p, {}, "missing") :
        t \in {PACKET_TYPE_CONNECTIVITY_REPORT, PACKET_TYPE_SFTP,
               PACKET_TYPE_CCONNECT_SFTP, "cconnect.ping"},
        p \in BOOLEAN}
    \cup {PluginPacket("cconnect.power.inhibit", TRUE, {}, i) :
        i \in {"true", "false", "missing"}}

\* The fields of the three plugins that packets, start() and stop() touch.
ConnectivityReportPlugin(enabled, signal_strengths) ==
    [enabled |-> enabled, signal_strengths |-> signal_strengths]
NetworkSharePlugin(shares) == [shares |-> shares]
PowerPlugin(enabled, inhibited, inhibitor_lock) ==
    [enabled |-> enabled, inhibited |-> inhibited, inhibitor_lock |-> inhibitor_lock]

ConnectivityReportPlugin_new == ConnectivityReportPlugin(FALSE, {})
NetworkSharePlugin_new == NetworkSharePlugin({})
PowerPlugin_new == PowerPlugin(FALSE, FALSE, FALSE)

\* What a call on a plugin returns: the plugin after it, and Ok or Err.
PluginRet(p, ok) == [p |-> p, ok |-> ok]

\* connectivity_report.rs
ConnectivityReportPlugin_start(p) == PluginRet([p EXCEPT !.enabled = TRUE], TRUE)

ConnectivityReportPlugin_stop(p) == PluginRet(ConnectivityReportPlugin(FALSE, {}), TRUE)

handle_report(p, packet) ==
    IF ~packet.parses THEN PluginRet(p, FALSE)
    ELSE PluginRet([p EXCEPT !.signal_strengths = packet.signalStrengths], TRUE)

is_connectivity_packet(packet) ==
    \/ is_type(packet, PACKET_TYPE_CONNECTIVITY_REPORT)
    \/ is_type(packet, PACKET_TYPE_KDECONNECT_CONNECTIVITY)

\* Mutant: the packet is handled whether the plugin was started or not.
ConnectivityReportPlugin_handle_packet_always(p, packet) ==
    IF is_connectivity_packet(packet) THEN handle_report(p, packet)
    ELSE PluginRet(p, TRUE)

ConnectivityReportPlugin_handle_packet(p, packet) ==
    IF ~p.enabled THEN PluginRet(p, TRUE)
    ELSE IF is_connectivity_packet(packet) THEN handle_report(p, packet)
    ELSE PluginRet(p, TRUE)

\* networkshare.rs: the plugin has no enabled flag.
NetworkSharePlugin_start(p) == PluginRet(p, TRUE)

NetworkSharePlugin_stop(p) == PluginRet(NetworkSharePlugin({}), TRUE)

handle_sftp_packet(p, device_id, packet) ==
    IF ~packet.parses THEN PluginRet(p, FALSE)
    ELSE PluginRet([p EXCEPT !.shares = @ \cup {device_id}], TRUE)

NetworkSharePlugin_handle_packet(p, packet, device_id) ==
    IF is_type(packet, PACKET_TYPE_SFTP) \/ is_type(packet, PACKET_TYPE_CCONNECT_SFTP)
    THEN handle_sftp_packet(p, device_id, packet)
    ELSE PluginRet(p, TRUE)

\* power.rs; lock_ok is whether systemd grants the inhibitor lock.
PowerPlugin_start(p) == PluginRet([p EXCEPT !.enabled = TRUE], TRUE)

PowerPlugin_stop(p) ==
    IF p.inhibited THEN PluginRet(PowerPlugin(FALSE, FALSE, FALSE), TRUE)
    ELSE PluginRet([p EXCEPT !.enabled = FALSE], TRUE)

handle_inhibit_request(p, packet, lock_ok) ==
    IF packet.inhibit = "missing" THEN PluginRet(p, TRUE)
    ELSE IF packet.inhibit = "true"
    THEN PluginRet([p EXCEPT !.inhibited = TRUE,
                             !.inhibitor_lock = IF lock_ok THEN TRUE ELSE @], TRUE)
    ELSE PluginRet([p EXCEPT !.inhibited = FALSE, !.inhibitor_lock = FALSE], TRUE)

PowerPlugin_handle_packet(p, packet, lock_ok) ==
    IF ~p.enabled THEN PluginRet(p, TRUE)
    ELSE IF is_type(packet, "cconnect.power.inhibit")
            \/ is_type(packet, "kdeconnect.power.inhibit")
    THEN handle_inhibit_request(p, packet, lock_ok)
    ELSE PluginRet(p, TRUE)

PluginNames == {"connectivity_report", "networkshare", "power"}

\* The last call on a plugin; n alternates so that two equal calls in a row
\* are two steps.
PluginCall(name, op, ok, n) == [name |-> name, op |-> op, ok |-> ok, n |-> n]

\* The instances after new() and init(), none started. started records,
\* per instance, whether start() was called and stop() has not been since.
InitPlugin ==
    plugin = [connectivity_report |-> ConnectivityReportPlugin_new,
              networkshare |-> NetworkSharePlugin_new,
              power |-> PowerPlugin_new,
              started |-> [name \in PluginNames |-> FALSE],
              call |-> PluginCall("none", "new", TRUE, 0)]

InitPluginIdle == InitPlugin

PluginStep(name, op, ret, started) ==
    /\ plugin' = [plugin EXCEPT ![name] = ret.p,
                                !.started[name] = started,
                                !.call = PluginCall(name, op, ret.ok, 1 - plugin.call.n)]
    /\ UNCHANGED <<handlerVars, pairVars, tlsVars, link, bus, disc, store, rds>>

PluginStart ==
    \/ PluginStep("connectivity_report", "start",
                  ConnectivityReportPlugin_start(plugin.connectivity_report), TRUE)
    \/ PluginStep("networkshare", "start",
                  NetworkSharePlugin_start(plugin.networkshare), TRUE)
    \/ PluginStep("power", "start", PowerPlugin_start(plugin.power), TRUE)

PluginStop ==
    \/ PluginStep("connectivity_report", "stop",
                  ConnectivityReportPlugin_stop(plugin.connectivity_report), FALSE)
    \/ PluginStep("networkshare", "stop",
                  NetworkSharePlugin_stop(plugin.networkshare), FALSE)
    \/ PluginStep("power", "stop", PowerPlugin_stop(plugin.power), FALSE)

PluginHandlePacket ==
    \E packet \in PluginPackets :
        \/ PluginStep("connectivity_report", "handle_packet",
                      ConnectivityReportPlugin_handle_packet(plugin.connectivity_report,
                                                             packet),
                      plugin.started["connectivity_report"])
        \/ \E d \in Devices :
              PluginStep("networkshare", "handle_packet",
                         NetworkSharePlugin_handle_packet(plugin.networkshare, packet, d),
                         plugin.started["networkshare"])
        \/ \E lock_ok \in BOOLEAN :
              PluginStep("power", "handle_packet",
                         PowerPlugin_handle_packet(plugin.power, packet, lock_ok),
                         plugin.started["power"])

(* ---------------------------------------------------------------------- *)
(* plugins/remotedesktop/session.rs : SessionManager                       *)
(* ---------------------------------------------------------------------- *)
SessionState == {"Idle", "Starting", "Active", "Paused", "Stopped", "Error"}

\* Where the VNC server task that start_session spawns is:
\*   "none"      no task was spawned
\*   "spawned"   spawned, not yet polled
\*   "polling"   in its first poll, before it writes Active (l.180-185)
\*   "serving"   suspended in server.start(capture).await (l.189)
\*   "cleanup"   server.start has returned (l.190-199)
\*   "done"      finished; "cancelled": dropped after an abort
TaskPos == {"none", "spawned", "polling", "serving", "cleanup", "done", "cancelled"}

\* The SessionManager: state, info (Some or None), server_handle (Some or
\* None), and with them the task and whether its abort was requested while
\* it was running.
SessionManager(state, info, server_handle, task, abort) ==
    [state |-> state, info |-> info, server_handle |-> server_handle,
     task |-> task, abort |-> abort]

SessionManager_new == SessionManager("Idle", FALSE, FALSE, "none", FALSE)

\* What a call returns: "Ok", "InvalidState", or another error.
SessionRet(m, ret) == [m |-> m, ret |-> ret]

\* How the screen capture set up by start_session goes: one of the calls
\* ended by ? fails (l.126-156), no monitor is found (l.130-136), or all
\* succeed.
StartOutcomes == {"capture_failed", "no_monitors", "ok"}

start_session(m, outcome) ==
    IF m.state # "Idle" THEN SessionRet(m, "InvalidState")
    ELSE IF outcome = "capture_failed"
    THEN SessionRet([m EXCEPT !.state = "Starting"], "Io")
    ELSE IF outcome = "no_monitors"
    THEN SessionRet([m EXCEPT !.state = "Error"], "Plugin")
    ELSE SessionRet(SessionManager("Starting", TRUE, TRUE, "spawned", FALSE), "Ok")

\* Mutant: a session can be paused in any state.
pause_session_unguarded(m) == SessionRet([m EXCEPT !.state = "Paused"], "Ok")

pause_session(m) ==
    IF m.state # "Active" THEN SessionRet(m, "InvalidState")
    ELSE SessionRet([m EXCEPT !.state = "Paused"], "Ok")

resume_session(m) ==
    IF m.state # "Paused" THEN SessionRet(m, "InvalidState")
    ELSE SessionRet([m EXCEPT !.state = "Active"], "Ok")

\* JoinHandle::abort: a task that is not running is dropped; a task that
\* is running is dropped when it next yields.
abort(m) ==
    IF m.task \in {"spawned", "serving"} THEN [m EXCEPT !.task = "cancelled"]
    ELSE IF m.task \in {"polling", "cleanup"} THEN [m EXCEPT !.abort = TRUE]
    ELSE m

\* The last call on the manager: the state it found, and what it returned
\* ("pending" while stop_session is under way).
SessionCall(op, pre, ret, n) == [op |-> op, pre |-> pre, ret |-> ret, n |-> n]

\* stop_pos is where stop_session is: "idle" (not running), "abort" (it has
\* written Stopped, l.219), "clear" (it has aborted the task, l.222-225).
InitSession ==
    rds = [m |-> SessionManager_new,
           stop_pos |-> "idle",
           call |-> SessionCall("new", "Idle", "Ok", 0)]

InitSessionIdle == InitSession

InitModIdle == InitStoreIdle /\ InitPluginIdle /\ InitSessionIdle

InitAuxIdle == InitBusIdle /\ InitDiscIdle /\ InitModIdle

SessionUnchanged ==
    UNCHANGED <<handlerVars, pairVars, tlsVars, link, bus, disc, store, plugin>>

\* The methods take &mut self: one runs at a time.
SessionStep(op, r) ==
    /\ rds.stop_pos = "idle"
    /\ rds' = [rds EXCEPT !.m = r.m,
                          !.call = SessionCall(op, rds.m.state, r.ret, 1 - rds.call.n)]
    /\ SessionUnchanged

StartSession ==
    \E outcome \in StartOutcomes :
        /\ rds.m.state # "Idle" => outcome = "ok"
        /\ SessionStep("start_session", start_session(rds.m, outcome))

PauseSession == SessionStep("pause_session", pause_session(rds.m))

ResumeSession == SessionStep("resume_session", resume_session(rds.m))

\* stop_session, l.212-219: the no-op return, or the write of Stopped.
StopSessionBegin ==
    /\ rds.stop_pos = "idle"
    /\ IF rds.m.state \in {"Idle", "Stopped"}
       THEN rds' = [rds EXCEPT !.call = SessionCall("stop_session", rds.m.state, "Ok",
                                                    1 - rds.call.n)]
       ELSE rds' = [rds EXCEPT !.m.state = "Stopped",
                               !.stop_pos = "abort",
                               !.call = SessionCall("stop_session", rds.m.state,
                                                    "pending", 1 - rds.call.n)]
    /\ SessionUnchanged

\* stop_session, l.222-225.
StopSessionAbort ==
    /\ rds.stop_pos = "abort"
    /\ rds' = [rds EXCEPT !.m = IF rds.m.server_handle
                                THEN [abort(rds.m) EXCEPT !.server_handle = FALSE]
                                ELSE rds.m,
                          !.stop_pos = "clear"]
    /\ SessionUnchanged

\* stop_session, l.228-231.
StopSessionClear ==
    /\ rds.stop_pos = "clear"
    /\ rds' = [rds EXCEPT !.m.info = FALSE, !.stop_pos = "idle", !.call.ret = "Ok"]
    /\ SessionUnchanged

\* The runtime polls the task for the first time.
TaskPoll ==
    /\ rds.m.task = "spawned"
    /\ rds' = [rds EXCEPT !.m.task = "polling"]
    /\ SessionUnchanged

\* The task writes Active (l.186) and suspends in server.start (l.189),
\* where a requested abort takes effect.
TaskSetActive ==
    /\ rds.m.task = "polling"
    /\ rds' = [rds EXCEPT !.m.state = "Active",
                          !.m.task = IF rds.m.abort THEN "cancelled" ELSE "serving"]
    /\ SessionUnchanged

\* The task had to wait for the lock of state (l.186) and its abort was
\* requested: it is dropped there.
TaskCancelledAtLock ==
    /\ rds.m.task = "polling"
    /\ rds.m.abort
    /\ rds' = [rds EXCEPT !.m.task = "cancelled"]
    /\ SessionUnchanged

\* server.start returns, with Ok or with an error (l.189-197).
TaskServerReturns ==
    \E ok \in BOOLEAN :
        /\ rds.m.task = "serving"
        /\ rds' = [rds EXCEPT !.m.task = "cleanup",
                              !.m.state = IF ok THEN @ ELSE "Error"]
        /\ SessionUnchanged

\* The cleanup of the task (l.200-201).
TaskCleanup ==
    /\ rds.m.task = "cleanup"
    /\ rds' = [rds EXCEPT !.m.task = "done", !.m.state = "Stopped", !.m.info = FALSE]
    /\ SessionUnchanged

(* ---------------------------------------------------------------------- *)
(* Specifications                                                          *)
(* ---------------------------------------------------------------------- *)
Init == InitHandler /\ InitPairIdle /\ InitTlsIdle /\ InitLinkIdle /\ InitAuxIdle

Next ==
    \/ RequestPairing
    \/ HandlePairingPacket
    \/ AcceptPairing
    \/ RejectPairing
    \/ Unpair

Spec == Init /\ [][Next]_vars

\* One handler with time passing.
NextClock == Next \/ Tick

SpecClock == Init /\ [][NextClock]_vars

InitP == InitHandler /\ InitPair /\ InitTlsIdle /\ InitLinkIdle /\ InitAuxIdle

NextPair ==
    \/ \E a \in Sides : PairRequest(a)
    \/ \E a \in Sides : PairDeliver(a)
    \/ \E a \in Sides : PairAccept(a)

\* The channels are reliable and the users act: a request is made, a packet
\* in flight is delivered, a pending request is confirmed.
SpecPair == InitP /\ [][NextPair]_vars /\ WF_vars(NextPair)

InitT == InitHandler /\ InitPairIdle /\ InitTls /\ InitLinkIdle /\ InitAuxIdle

NextTls ==
    \/ Start
    \/ Accept
    \/ Connect
    \/ \E s \in SessIds : FirstFrame(s)
    \/ \E s \in SessIds : FirstFrameError(s)
    \/ \E s \in SessIds : Install(s)
    \/ \E s \in SessIds : Receive(s)
    \/ \E s \in SessIds : Teardown(s)

SpecTls == InitT /\ [][NextTls]_vars

\* Connections are made and dropped before identification, with the
\* handshake history kept.
InitH == InitHandler /\ InitPairIdle /\ InitHandshake /\ InitLinkIdle /\ InitAuxIdle

NextHandshake ==
    \/ Start
    \/ Accept
    \/ Connect
    \/ \E s \in SessIds : FirstFrameError(s)

SpecHandshake == InitH /\ [][NextHandshake]_vars

\* The manager as server: connections are accepted, identified, replaced,
\* disconnected and closed.
NextServer ==
    \/ Start
    \/ Accept
    \/ Disconnect
    \/ \E s \in SessIds : FirstFrame(s)
    \/ \E s \in SessIds : FirstFrameError(s)
    \/ \E s \in SessIds : Install(s)
    \/ \E s \in SessIds : Receive(s)
    \/ \E s \in SessIds : HandleCommand(s)
    \/ \E s \in SessIds : Teardown(s)

SpecServer == InitT /\ [][NextServer]_vars

\* The manager as server, started and stopped.
NextStop == NextServer \/ Stop

SpecStop == InitT /\ [][NextStop]_vars

\* Two managers and one connection between them.
InitK == InitHandler /\ InitPairIdle /\ InitTlsIdle /\ InitLink /\ InitAuxIdle

NextLink ==
    \/ LinkConnect
    \/ \E a \in Sides : LinkFirstFrame(a)
    \/ \E a \in Sides : LinkSendPacket(a)

SpecLink == InitK /\ [][NextLink]_vars

\* One session loop with its mailbox and its stream.
InitL == InitHandler /\ InitPairIdle /\ InitLoop /\ InitLinkIdle /\ InitAuxIdle

NextLoop ==
    \/ SendPacket
    \/ Disconnect
    \/ \E s \in SessIds : PeerWrites(s)
    \/ \E s \in SessIds : ReadLength(s)
    \/ \E s \in SessIds : ReadBody(s)
    \/ \E s \in SessIds : HandleCommand(s)
    \/ \E s \in SessIds : Teardown(s)

SpecLoop == InitL /\ [][NextLoop]_vars

\* One session loop and the clock of its reads.
NextIdle ==
    \/ \E s \in SessIds : PeerWrites(s)
    \/ \E s \in SessIds : ReadLength(s)
    \/ \E s \in SessIds : ReadBody(s)
    \/ \E s \in SessIds : IdleTick(s)
    \/ \E s \in SessIds : ReadTimeout(s)

SpecIdle == InitL /\ [][NextIdle]_vars

\* The event channel with its producers and subscribers.
NextBus ==
    \/ BusEmit
    \/ \E i \in Subscribers : BusSubscribe(i)
    \/ \E i \in Subscribers : BusLock(i)
    \/ \E i \in Subscribers : BusForward(i)
    \/ \E i \in Subscribers : BusDrop(i)

SpecBus == Init /\ [][NextBus]_vars

\* The discovery listener and the clock.
InitN == InitHandler /\ InitPairIdle /\ InitTlsIdle /\ InitLinkIdle
            /\ InitBusIdle /\ InitListen /\ InitModIdle

NextListen ==
    \/ DiscTick
    \/ ListenerReceive
    \/ ListenerInsert
    \/ ListenerSend

SpecListen == InitN /\ [][NextListen]_vars

\* The discovery listener, the timeout checker and the clock.
InitD == InitHandler /\ InitPairIdle /\ InitTlsIdle /\ InitLinkIdle
            /\ InitBusIdle /\ InitDiscovery /\ InitModIdle

NextDiscovery ==
    \/ DiscTick
    \/ ListenerReceive
    \/ ListenerInsert
    \/ ListenerSend
    \/ CheckerTick
    \/ CheckerScan

SpecDiscovery == InitD /\ [][NextDiscovery]_vars

\* The discovery broadcaster.
NextBroadcast ==
    \/ BroadcastTick
    \/ BroadcastShutdown

SpecBroadcast == InitD /\ [][NextBroadcast]_vars

InitS ==
    /\ InitHandler /\ InitPairIdle /\ InitTlsIdle /\ InitLinkIdle
    /\ InitBusIdle /\ InitDiscIdle /\ InitStore /\ InitPluginIdle /\ InitSessionIdle

NextLoad == PlaceFile \/ LoadPairedDevices

SpecLoad == InitS /\ [][NextLoad]_vars

InitG ==
    /\ InitHandler /\ InitPairIdle /\ InitTlsIdle /\ InitLinkIdle
    /\ InitBusIdle /\ InitDiscIdle /\ InitStoreIdle /\ InitPlugin /\ InitSessionIdle

NextPlugin == PluginStart \/ PluginStop \/ PluginHandlePacket

SpecPlugin == InitG /\ [][NextPlugin]_vars

InitR ==
    /\ InitHandler /\ InitPairIdle /\ InitTlsIdle /\ InitLinkIdle
    /\ InitBusIdle /\ InitDiscIdle /\ InitStoreIdle /\ InitPluginIdle /\ InitSession

NextSession ==
    \/ StartSession
    \/ PauseSession
    \/ ResumeSession
    \/ StopSessionBegin
    \/ StopSessionAbort
    \/ StopSessionClear
    \/ TaskPoll
    \/ TaskSetActive
    \/ TaskCancelledAtLock
    \/ TaskServerReturns
    \/ TaskCleanup

SpecSession == InitR /\ [][NextSession]_vars

\* The manager as server while devices are paired and unpaired.
NextTrust ==
    \/ Start
    \/ Accept
    \/ StorePairing
    \/ Forget
    \/ \E s \in SessIds : FirstFrameError(s)

SpecTrust == InitT /\ [][NextTrust]_vars

\* The discovery service, started and stopped.
NextQuiet == NextDiscovery \/ BroadcastShutdown

SpecQuiet == InitD /\ [][NextQuiet]_vars

TypeOK ==
    /\ status \in PairingStatus
    /\ paired_devices \in [Devices -> Certs \cup {None}]
    /\ files \in [Devices -> FileContents]
    /\ age \in 0..(PAIRING_TIMEOUT + 1)
    /\ \A a \in Sides : ends[a].status \in PairingStatus
    /\ \A d \in Devices : connections[d] \in SessIds \cup {NoSess}
    /\ Len(events) <= MaxEvents

(* ---------------------------------------------------------------------- *)
(* Claims about one PairingHandler (Spec)                                  *)
(* ---------------------------------------------------------------------- *)
Dev == call.device_id
StoredPem(c) == pem_encode("CERTIFICATE", c)
IsPairTrue(packet) == from_packet(packet).ok /\ from_packet(packet).pair

\* C3: handle_pairing_packet never auto-accepts. A pair=true packet in
\* status Unpaired or RequestedByPeer leaves the status RequestedByPeer and
\* the paired map and the trust-store files as they were, and returns nothing
\* to send; and a step that takes the status from RequestedByPeer to Paired
\* is a call of accept_pairing.
C3_NoAutoAccept ==
    [][/\ (/\ call'.op = "handle_pairing_packet"
           /\ call'.pair = "true"
           /\ status \in {"Unpaired", "RequestedByPeer"})
          => /\ call'.ok
             /\ status' = "RequestedByPeer"
             /\ paired_devices' = paired_devices
             /\ files' = files
             /\ ~call'.respond
             /\ call'.response = NoPacket
       /\ (status = "RequestedByPeer" /\ status' = "Paired")
          => call'.op = "accept_pairing"]_vars

C3_Witness ==
    /\ call.op = "handle_pairing_packet"
    /\ call.pair = "true"
    /\ call.pre_status = "Unpaired"
    /\ status = "RequestedByPeer"
    /\ paired_devices = EmptyMap

\* C4: a pair=true packet from a peer in status Requested, when the write of
\* the certificate file succeeds, stores the peer's certificate in the file
\* <peer>.pem and in the paired map, sets the status to Paired and returns a
\* pair=true packet with should_respond set; the call fails only if the
\* write fails.
C4_AcceptReceived ==
    (/\ call.op = "handle_pairing_packet"
     /\ call.pair = "true"
     /\ call.pre_status = "Requested")
    => /\ call.ok <=> call.io = "ok"
       /\ call.ok =>
            /\ status = "Paired"
            /\ files[Dev] = StoredPem(call.cert)
            /\ paired_devices[Dev] = call.cert
            /\ call.respond
            /\ call.response = PairingPacket_accept
            /\ IsPairTrue(call.response)

C4_Witness ==
    /\ call.op = "handle_pairing_packet"
    /\ call.pair = "true"
    /\ call.pre_status = "Requested"
    /\ call.ok
    /\ status = "Paired"

\* C5: in every status a pair=false packet from device d sets the status to
\* Unpaired, returns nothing to send and leaves no certificate for d, neither
\* in the paired map nor as the file d.pem. Stated for the calls in which no
\* file operation failed and d.pem is not the rest of a write cut short.
C5_RejectClearsTrust ==
    (/\ call.op = "handle_pairing_packet"
     /\ call.pair = "false"
     /\ call.io \in {"none", "ok"}
     /\ files[Dev] # Truncated)
    => /\ call.ok
       /\ status = "Unpaired"
       /\ ~call.respond
       /\ call.response = NoPacket
       /\ paired_devices[Dev] = None
       /\ files[Dev] = NoFile

\* C6: accept_pairing returns Ok only in status RequestedByPeer; in any other
\* status it returns Err and status, paired map and files stay as they were;
\* when it returns Ok the certificate is stored (file and map), the status is
\* Paired and the packet returned is pair=true.
C6_AcceptPairing ==
    [][call'.op = "accept_pairing"
       => /\ call'.ok => status = "RequestedByPeer"
          /\ status # "RequestedByPeer" =>
                /\ ~call'.ok
                /\ status' = status
                /\ paired_devices' = paired_devices
                /\ files' = files
                /\ call'.response = NoPacket
          /\ call'.ok =>
                /\ status' = "Paired"
                /\ files'[call'.device_id] = StoredPem(call'.cert)
                /\ paired_devices'[call'.device_id] = call'.cert
                /\ IsPairTrue(call'.response)]_vars

C6_Witness ==
    /\ call.op = "accept_pairing"
    /\ call.ok
    /\ call.pre_status = "RequestedByPeer"
    /\ status = "Paired"
    /\ paired_devices[Dev] = call.cert

\* C7: when the write of the certificate file fails in handle_pairing_packet
\* (status Requested, pair=true) or in accept_pairing, the call returns Err,
\* the status stays what it was (it does not become Paired) and the paired
\* map is as before.
StoresCertificate ==
    \/ /\ call.op = "handle_pairing_packet"
       /\ call.pair = "true"
       /\ call.pre_status = "Requested"
    \/ /\ call.op = "accept_pairing"
       /\ call.pre_status = "RequestedByPeer"

C7_StorageFailureAtomic ==
    [][(StoresCertificate' /\ call'.io \in {"fail", "partial"})
       => /\ ~call'.ok
          /\ status' = status
          /\ status' # "Paired"
          /\ paired_devices' = paired_devices]_vars

C7_Witness ==
    /\ StoresCertificate
    /\ call.op = "accept_pairing"
    /\ call.io = "partial"
    /\ ~call.ok
    /\ status = "RequestedByPeer"

\* C8: from a new handler over an empty trust store, the status is Paired
\* exactly when a peer certificate is stored (in the paired map or as a
\* certificate file).
CertificateStored ==
    \E d \in Devices :
        paired_devices[d] # None \/ files[d].kind = "pem"

C8_PairedIffStored == (status = "Paired") <=> CertificateStored

\* C9: device d is in the paired map exactly when the file d.pem exists,
\* whatever file operations failed.
C9_MapMatchesFiles ==
    \A d \in Devices : (paired_devices[d] # None) <=> (files[d] # NoFile)

\* C11: a pair=true packet in status Paired leaves the status Paired and
\* signals that nothing is to be sent back: should_respond is false and no
\* response packet is returned.
C11_PairedNoReply ==
    (/\ call.op = "handle_pairing_packet"
     /\ call.pair = "true"
     /\ call.pre_status = "Paired")
        => /\ call.ok
           /\ status = "Paired"
           /\ ~call.respond
           /\ call.response = NoPacket

\* C12: a request is never pending (status Requested or RequestedByPeer) for
\* more than the 30 s pairing timeout.
C12_PendingTimesOut == Pending(status) => age <= PAIRING_TIMEOUT


(* ---------------------------------------------------------------------- *)
(* Claims about two PairingHandlers (SpecPair)                             *)
(* ---------------------------------------------------------------------- *)
Trusts(a) ==
    /\ ends[a].status = "Paired"
    /\ ends[a].paired_devices[Other(a)] = cert_of[Other(a)]
    /\ ends[a].files[Other(a)] = StoredPem(cert_of[Other(a)])

MutualTrust ==
    /\ \A a \in Sides : Trusts(a)
    /\ \A a \in Sides : wire[a] = <<>>

\* C10: a first pairing over reliable channels ends in mutual trust: from
\* some point on no pair packet is in flight, both statuses are Paired and
\* each side holds the other's certificate in its paired map and its file.
C10_PairingTerminates == <>[]MutualTrust

\* A asked once, B never asked and so confirmed with accept_pairing.
C10_Witness ==
    /\ MutualTrust
    /\ asked[1] = 1
    /\ asked[2] = 0

(* ---------------------------------------------------------------------- *)
(* Claims about the TLS verifiers and the session task (SpecTls)           *)
(* ---------------------------------------------------------------------- *)
Established(s) == sess[s].pos # "free"

\* C1: a TLS session is established exactly when both checks pass on equal
\* bytes. Inbound: the client's certificate is one of the server's trusted
\* certificates (and the client found the certificate it expected). Outbound:
\* the server's certificate is the one recorded for the device dialed; the
\* certificate of any other device is rejected.
C1_TlsByteExact ==
    /\ hs.dir = "in" =>
        (hs.established <=>
            /\ hs.client_cert \in server.trusted_certs
            /\ hs.expected_cert = OurCert)
    /\ hs.dir = "out" =>
        (hs.established <=>
            /\ OurCert \in hs.trusted_certs
            /\ hs.server_cert = registry[hs.dialed].certificate_data)
    /\ \A s \in SessIds :
        /\ (Established(s) /\ sess[s].dir = "in") =>
                sess[s].peer_cert \in server.trusted_certs
        /\ (Established(s) /\ sess[s].dir = "out") =>
                sess[s].peer_cert = registry[sess[s].dialed].certificate_data

\* A dialed session is up while another paired device has another
\* certificate: the certificate accepted is the dialed device's.
C1_Witness ==
    /\ hs.dir = "out"
    /\ hs.established
    /\ \E e \in Devices :
        /\ e # hs.dialed
        /\ is_paired_device(registry, e)
        /\ registry[e].certificate_data # hs.server_cert
    /\ \E s \in SessIds : Established(s) /\ sess[s].dir = "out"

\* C2: an accepted session is identified (Connected or PacketReceived emitted
\* for it, or installed in the session table) only if its first frame is an
\* identity packet whose deviceId names a paired device.
Identified(s) ==
    \/ sess[s].pos \in {"install", "loop", "closed"}
    \/ \E d \in Devices : connections[d] = s
    \/ \E i \in 1..Len(events) :
        /\ events[i].sess = s
        /\ events[i].kind \in {"Connected", "PacketReceived"}

C2_FirstFrameIdentity ==
    \A s \in SessIds :
        (sess[s].dir = "in" /\ Identified(s)) =>
            /\ sess[s].first.packet_type \in IdentityTypes
            /\ sess[s].first.deviceId # NoId
            /\ is_paired_device(registry, sess[s].first.deviceId)

(* ---------------------------------------------------------------------- *)
(* Claims about sessions (SpecTls, SpecServer)                             *)
(* ---------------------------------------------------------------------- *)
\* A session whose loop runs while the table maps its device to another
\* session.
Replaced(s) ==
    /\ sess[s].pos = "loop"
    /\ connections[sess[s].device_id] \notin {s, NoSess}

\* C13: replacing a session is clean. Once the table maps a device to a new
\* session no older session of the device is still running; and no step
\* that ends a replaced session removes the new session's entry, marks the
\* device disconnected or emits Disconnected.
C13_CleanReplacement ==
    [][/\ \A s \in SessIds : ~Replaced(s)'
       /\ \A s \in SessIds :
            (Replaced(s) /\ sess'[s].pos = "closed")
                => /\ connections' = connections
                   /\ registry' = registry
                   /\ events' = events]_vars

EventCount(evs, kind, s) ==
    Cardinality({i \in 1..Len(evs) : evs[i].kind = kind /\ evs[i].sess = s})
DeviceCount(evs, kind, d) ==
    Cardinality({i \in 1..Len(evs) : evs[i].kind = kind /\ evs[i].device_id = d})

\* C14: a step that ends an identified session removes the entry of its
\* device, marks the device disconnected and emits Disconnected for it; a
\* session has one Disconnected event when it has ended and none before; a
\* device never has more Disconnected than Connected events; and a session
\* that is not identified has neither event.
C14_SessionEnd ==
    [][/\ \A s \in SessIds :
            (sess[s].pos \in {"install", "loop"} /\ sess'[s].pos = "closed")
                => /\ connections'[sess[s].device_id] = NoSess
                   /\ ~registry'[sess[s].device_id].connected
                   /\ events' = Append(events, Event("Disconnected", sess[s].device_id, s))
       /\ \A s \in SessIds :
            EventCount(events', "Disconnected", s) =
                IF sess'[s].pos = "closed" THEN 1 ELSE 0
       /\ \A d \in Devices :
            DeviceCount(events', "Disconnected", d) <= DeviceCount(events', "Connected", d)
       /\ \A s \in SessIds :
            sess'[s].pos \in {"free", "identity"}
                => /\ EventCount(events', "Connected", s) = 0
                   /\ EventCount(events', "Disconnected", s) = 0]_vars

\* A session ended by a Close command, its Disconnected event emitted.
C14_Witness ==
    \E s \in SessIds :
        /\ sess[s].pos = "closed"
        /\ io[s].cause = "Close"
        /\ EventCount(events, "Disconnected", s) = 1
        /\ connections[sess[s].device_id] = NoSess

(* ---------------------------------------------------------------------- *)
(* Claims about one session loop (SpecLoop)                                *)
(* ---------------------------------------------------------------------- *)
FrameNumbers(inbound) == [i \in 1..Len(inbound) |-> inbound[i].n]
IsSendPacket(cmd) == cmd.kind = "SendPacket"
Queued(mailbox) ==
    LET sends == SelectSeq(mailbox, IsSendPacket) IN
    [i \in 1..Len(sends) |-> sends[i].packet]
IsPrefix(p, q) == Len(p) <= Len(q) /\ SubSeq(q, 1, Len(p)) = p

\* C15: while a session is open, the frames emitted as PacketReceived
\* followed by the frames not yet read are the frames the peer wrote, in
\* wire order, and no frame is torn.
C15_WireOrder ==
    \A s \in SessIds :
        sess[s].pos = "loop"
            => /\ \A i \in 1..Len(io[s].inbound) : ~io[s].inbound[i].torn
               /\ io[s].delivered \o FrameNumbers(io[s].inbound)
                    = [i \in 1..io[s].wrote |-> i]

\* C16: the packets written to the stream of a session are the first of the
\* packets send_packet accepted for it, in the order accepted; while the
\* session is open the packets written followed by the packets on the
\* mailbox are the packets accepted.
C16_SendOrder ==
    \A s \in SessIds :
        /\ IsPrefix(io[s].outbound, io[s].accepted)
        /\ sess[s].pos = "loop"
            => io[s].outbound \o Queued(io[s].mailbox) = io[s].accepted

\* Two packets were accepted and both are written.
C16_Witness ==
    \E s \in SessIds :
        /\ sess[s].pos = "loop"
        /\ Len(io[s].outbound) >= 2
        /\ io[s].outbound = io[s].accepted

\* C17: send_packet with a packet above 10 MiB for a device with a session
\* returns an invalid-packet error, and no session is ended by it.
C17_OversizedSend ==
    /\ (/\ mcall.op = "send_packet"
         /\ mcall.size > MAX_PACKET_SIZE
         /\ mcall.result # "DeviceNotFound")
            => mcall.result = "InvalidPacket"
    /\ \A s \in SessIds : io[s].cause # "Send failed: packet too large"

\* C18: a frame is read on when its length prefix is at most 10 MiB, and a
\* session ended by a longer prefix has a Disconnected event with the reason
\* "Packet too large".
C18_FrameLimit ==
    \A s \in SessIds :
        /\ io[s].rx = "body" => Head(io[s].inbound).len <= MAX_PACKET_SIZE
        /\ io[s].cause = "Packet too large"
            => /\ sess[s].pos = "closed"
               /\ \E i \in 1..Len(events) :
                    /\ events[i].kind = "Disconnected"
                    /\ events[i].sess = s
                    /\ events[i].reason = "Packet too large"

\* C19: send_packet for a device without an entry in the session table
\* returns DeviceNotFound and changes nothing: no mailbox, no event, not the
\* table, not the registry, no session.
C19_SendNoSession ==
    [][(/\ mcall' # mcall
        /\ mcall'.op = "send_packet"
        /\ connections[mcall'.device_id] = NoSess)
            => /\ mcall'.result = "DeviceNotFound"
               /\ UNCHANGED <<io, events, connections, registry, sess>>]_vars

\* DeviceNotFound for a device whose entry disconnect has removed while its
\* session task still runs.
C19_Witness ==
    /\ mcall.op = "send_packet"
    /\ mcall.result = "DeviceNotFound"
    /\ connections[mcall.device_id] = NoSess
    /\ \E s \in SessIds :
        /\ sess[s].pos = "loop"
        /\ sess[s].device_id = mcall.device_id
        /\ io[s].accepted = <<>>

(* ---------------------------------------------------------------------- *)
(* Claims about two managers (SpecLink)                                    *)
(* ---------------------------------------------------------------------- *)
\* C20: after the handshake the identity exchange completes. The two session
\* tasks are never both waiting for a first frame with no frame in flight to
\* either, and no task returns without having emitted Connected and
\* installed its session.
C20_IdentityExchange ==
    link.state = "up"
        => /\ ~(\A a \in Sides : link.task[a] = "identity" /\ link.inbox[a] = <<>>)
           /\ \A a \in Sides :
                link.task[a] = "returned" => (link.connected[a] /\ link.installed[a])

(* ---------------------------------------------------------------------- *)
(* Claims about stopping and accepting (SpecStop, SpecHandshake)           *)
(* ---------------------------------------------------------------------- *)
\* stop() has returned and start() has not been called since.
Stopped ==
    /\ ~server.started
    /\ \E i \in 1..Len(events) : events[i].kind = "ManagerStopped"

\* C21: once stop() has returned the session table is empty and stays
\* empty: no connection is accepted, and no session is installed in the
\* table afterwards (a session that was waiting for its identity frame
\* included).
C21_StopTerminates ==
    Stopped => \A d \in Devices : connections[d] = NoSess

\* A step of the accept loop as the handshake record shows it.
AcceptStep == hs' # hs /\ hs'.dir = "in"

\* C22: a failed handshake ends only that connection attempt. The step
\* leaves the server, the sessions, the table and the events as they were,
\* and the accept loop keeps running: the attempt that follows a failed
\* one, from a client that presents the certificate of a paired device and
\* expects ours, completes and gets a session task.
C22_AcceptLoopSurvives ==
    [][/\ (AcceptStep /\ ~hs'.established)
            => /\ server' = server
               /\ server'.started
               /\ sess' = sess
               /\ connections' = connections
               /\ events' = events
       /\ (/\ hs.dir = "in" /\ ~hs.established
           /\ AcceptStep
           /\ hs'.client_cert \in paired_certs(registry)
           /\ hs'.expected_cert = OurCert)
            => /\ hs'.established
               /\ \E s \in SessIds :
                    /\ sess[s].pos = "free"
                    /\ sess'[s] = Session("identity", "in", NoId,
                                          hs'.client_cert, NoId, NoFrame)]_vars

\* A handshake with a client whose certificate is not paired has failed;
\* the accept loop runs, and a paired device can connect.
C22_Witness ==
    /\ hs.dir = "in"
    /\ ~hs.established
    /\ hs.client_cert \notin paired_certs(registry)
    /\ server.started
    /\ FreeSlots # {}
    /\ \E c \in paired_certs(registry) :
            handshake(server.trusted_certs, c, OurCert, OurCert, {})

(* ---------------------------------------------------------------------- *)
(* Claims about the event channel (SpecBus)                                *)
(* ---------------------------------------------------------------------- *)
\* The events a subscriber has been sent, as a set.
Observed(i) == {bus.sub[i].got[k] : k \in 1..Len(bus.sub[i].got)}
InChannel == {bus.queue[k] : k \in 1..Len(bus.queue)}

\* C23: the event bus is multi-consumer. Every event emitted after a
\* subscription has been sent to that subscriber's receiver, or is still
\* in the channel on its way to it, whatever the other subscribers do
\* (read slowly, or drop their receivers).
C23_MultiConsumer ==
    \A i \in Subscribers :
        (bus.sub[i].task # "none" /\ bus.sub[i].held)
            => \A n \in (bus.sub[i].since + 1)..bus.emitted :
                    n \in Observed(i) \cup InChannel

(* ---------------------------------------------------------------------- *)
(* Claims about an idle session (SpecIdle)                                 *)
(* ---------------------------------------------------------------------- *)
\* C24: a session on which nothing is exchanged is not closed before
\* connection_timeout (60 s) of inactivity, and a keep-alive is sent every
\* keep_alive_interval (30 s): when a session has ended on a read timeout,
\* the read had waited at least CONNECTION_TIMEOUT, and a session that has
\* been silent for KEEP_ALIVE_INTERVAL has written a packet to its peer.
C24_IdleSession ==
    \A s \in SessIds :
        /\ (sess[s].pos = "closed" /\ io[s].cause = "Read timeout")
                => io[s].waited >= CONNECTION_TIMEOUT
        /\ (sess[s].pos = "loop" /\ io[s].waited >= KEEP_ALIVE_INTERVAL)
                => io[s].outbound # <<>>

(* ---------------------------------------------------------------------- *)
(* Claims about discovery (SpecListen, SpecDiscovery, SpecBroadcast)       *)
(* ---------------------------------------------------------------------- *)
\* A datagram that decodes as the identity packet of another device.
IsRemoteIdentity(data) ==
    /\ data.decodes
    /\ data.packet_type \in {"kdeconnect.identity", "cconnect.identity"}
    /\ data.deviceId \in Remotes

PrevFor(evs, d, i) ==
    LET before == {j \in 1..(i - 1) : evs[j].device_id = d} IN
    IF before = {} THEN 0 ELSE CHOOSE j \in before : \A k \in before : k <= j

\* C26: for each remote device the event stream is well-formed:
\* DeviceDiscovered comes first or after a DeviceTimeout, and DeviceUpdated
\* and DeviceTimeout come only while the device is known, that is after a
\* DeviceDiscovered or a DeviceUpdated.
C26_WellFormedStream ==
    \A i \in 1..Len(disc.events) :
        LET e == disc.events[i]
            j == PrevFor(disc.events, e.device_id, i) IN
        IF e.kind = "DeviceDiscovered"
        THEN j = 0 \/ disc.events[j].kind = "DeviceTimeout"
        ELSE j # 0 /\ disc.events[j].kind # "DeviceTimeout"

\* The number of DeviceTimeout events for device d.
Timeouts(evs, d) ==
    Cardinality({i \in 1..Len(evs) :
                    evs[i] = DiscoveryEvent("DeviceTimeout", d)})

\* C27: a scan of the timeout checker reports every device whose last
\* identity is device_timeout seconds old (or older): its entry is removed
\* and one DeviceTimeout is sent; and a device is reported once per
\* absence: DeviceTimeout is sent only for a device that has an entry, one
\* at a time, and takes the entry away.
C27_TimeoutAtLimit ==
    [][/\ (disc.checker.pos = "lock" /\ disc'.checker.pos = "sleep")
            => \A d \in Remotes :
                (/\ disc.last_seen[d] # Absent
                 /\ disc.checker.current_time - disc.last_seen[d]
                        >= DEFAULT_DEVICE_TIMEOUT)
                    => /\ disc'.last_seen[d] = Absent
                       /\ Timeouts(disc'.events, d) = Timeouts(disc.events, d) + 1
       /\ \A d \in Remotes :
            Timeouts(disc'.events, d) # Timeouts(disc.events, d)
                => /\ Timeouts(disc'.events, d) = Timeouts(disc.events, d) + 1
                   /\ disc.last_seen[d] # Absent
                   /\ disc'.last_seen[d] = Absent]_vars

\* The destinations of a broadcast: 255.255.255.255 and each additional
\* address, on port 1816 and on port 1716.
Destinations ==
    {SocketAddr(a, p) : a \in {BROADCAST_ADDR} \cup {additional_addrs[i] : i \in 1..MaxExtra},
                        p \in {1816, 1716}}

\* C28: on every tick the broadcaster attempts a send to every destination,
\* once each, whatever the sends return, and its loop runs on: only the
\* shutdown signal ends it, so a tick that follows a tick with failed sends
\* is served in full as well.
C28_BroadcastAll ==
    [][/\ (disc'.broadcaster # disc.broadcaster /\ disc'.broadcaster.running)
            => /\ {disc'.broadcaster.sent[i] : i \in 1..Len(disc'.broadcaster.sent)}
                    = Destinations
               /\ Len(disc'.broadcaster.sent) = Cardinality(Destinations)
               /\ disc'.broadcaster.success_count =
                    Cardinality({i \in 1..Len(disc'.broadcaster.sent) :
                                    disc'.broadcaster.outcome[i] = "ok"})
       /\ (disc.broadcaster.running /\ ~disc'.broadcaster.running)
            => disc'.broadcaster = [disc.broadcaster EXCEPT !.running = FALSE]]_vars

\* A tick is served in full although sends failed in a tick before and the
\* send to the first destination is NetworkUnreachable now.
C28_Witness ==
    /\ disc.broadcaster.running
    /\ disc.broadcaster.failed_before
    /\ disc.broadcaster.outcome[1] = "NetworkUnreachable"
    /\ disc.broadcaster.success_count = Len(disc.broadcaster.sent) - 1
    /\ Len(disc.broadcaster.sent) = Cardinality(Destinations)

(* ---------------------------------------------------------------------- *)
(* Round trip and idempotence of pairing (Spec)                            *)
(* ---------------------------------------------------------------------- *)
\* The handler is paired with device d: the status is Paired and the
\* certificate of d is in the map and in its file.
PairedWith(d) ==
    /\ status = "Paired"
    /\ paired_devices[d] # None
    /\ files[d] = StoredPem(paired_devices[d])

\* C29: pairing then unpairing is a round trip. unpair(d) on a handler
\* paired with d returns Ok unless removing the file fails; when it returns
\* Ok the status is Unpaired, d is absent from the paired map, there is no
\* d.pem file, the other devices are as they were, and the packet returned
\* is pair=false; when removing the file fails it returns the error and
\* status, map and files stay as they were.
C29_PairUnpair ==
    [][(call'.op = "unpair" /\ PairedWith(call'.device_id))
       => /\ call'.ok <=> call'.io = "ok"
          /\ call'.ok =>
                /\ status' = "Unpaired"
                /\ paired_devices' = [paired_devices EXCEPT ![call'.device_id] = None]
                /\ files' = [files EXCEPT ![call'.device_id] = NoFile]
                /\ from_packet(call'.response).ok
                /\ ~from_packet(call'.response).pair
          /\ ~call'.ok =>
                /\ status' = status
                /\ paired_devices' = paired_devices
                /\ files' = files]_vars

\* A handler paired with device d has been unpaired from it: the file is
\* removed, and status, map and directory are as before the pairing.
C29_Witness ==
    /\ call.op = "unpair"
    /\ call.pre_status = "Paired"
    /\ call.ok
    /\ call.io = "ok"
    /\ status = "Unpaired"
    /\ paired_devices = EmptyMap
    /\ files = EmptyDir
    /\ call.response = PairingPacket_unpair

\* C30: accepting the same pair request twice yields the same final state
\* as accepting it once. In the status Paired a further accept_pairing and
\* a further incoming pair=true leave the status Paired and the paired map
\* and the certificate files unchanged.
C30_AcceptTwice ==
    [][(/\ status = "Paired"
        /\ \/ call'.op = "accept_pairing"
           \/ call'.op = "handle_pairing_packet" /\ call'.pair = "true")
       => /\ status' = "Paired"
          /\ paired_devices' = paired_devices
          /\ files' = files]_vars

\* accept_pairing(d, cert) has been called a second time for the
\* certificate stored: it returned Err and the handler is as it was.
C30_Witness ==
    /\ call.op = "accept_pairing"
    /\ call.pre_status = "Paired"
    /\ ~call.ok
    /\ status = "Paired"
    /\ paired_devices[Dev] = call.cert
    /\ files[Dev] = StoredPem(call.cert)

(* ---------------------------------------------------------------------- *)
(* Claims about reloading the trust store (SpecLoad)                       *)
(* ---------------------------------------------------------------------- *)
\* A peer's file that load_paired_devices has to skip.
BadFile(file) ==
    \/ file = Unreadable
    \/ file = Truncated
    \/ file.kind = "pem" /\ file.tag # "CERTIFICATE"

\* A step of load_paired_devices: it records its result and leaves the
\* directory alone.
IsLoad ==
    /\ store'.ret.op = "load_paired_devices"
    /\ store'.dir = store.dir
    /\ store' # store

\* C31: a load_paired_devices for which read_dir lists the whole directory
\* returns Ok whatever the files hold; it then leaves the map entry of every
\* peer whose file is unreadable, unparseable or tagged otherwise as it was,
\* never enters device_cert or device_key, and enters every peer d whose
\* d.pem holds a CERTIFICATE block with the bytes of that block.
C31_TolerantReload ==
    [][(IsLoad /\ store'.ret.complete) =>
        /\ store'.ret.ok
        /\ \A s \in OwnStems : store'.paired_devices[s] = None
        /\ \A d \in Devices :
            /\ BadFile(store.dir[d]) =>
                  store'.paired_devices[d] = store.paired_devices[d]
            /\ \A c \in LoadCerts :
                  store.dir[d] = pem_encode("CERTIFICATE", c) =>
                      store'.paired_devices[d] = c]_vars

\* A complete load over a directory that holds a bad file and a valid one.
C31_Witness ==
    /\ store.ret.op = "load_paired_devices"
    /\ store.ret.complete
    /\ \E d \in Devices : BadFile(store.dir[d]) /\ store.paired_devices[d] = None
    /\ \E d \in Devices : store.dir[d].tag = "CERTIFICATE"
                          /\ store.paired_devices[d] = store.dir[d].der

(* ---------------------------------------------------------------------- *)
(* Claims about plugins (SpecPlugin)                                       *)
(* ---------------------------------------------------------------------- *)
\* The step is a call of op on the plugin name.
IsPluginCall(name, op) ==
    /\ plugin'.call.n # plugin.call.n
    /\ plugin'.call.name = name
    /\ plugin'.call.op = op

\* The plugin holds nothing it accumulated from packets.
Cleared(p, name) ==
    CASE name = "connectivity_report" -> p.connectivity_report.signal_strengths = {}
      [] name = "networkshare" -> p.networkshare.shares = {}
      [] name = "power" -> ~p.power.inhibited /\ ~p.power.inhibitor_lock

\* C32: handle_packet on a plugin that was never started, or that was
\* stopped, returns Ok and leaves the plugin's state as it was, and stop()
\* leaves the plugin without signal strengths, shares or sleep inhibition.
C32_OnlyWhileStarted ==
    [][\A name \in PluginNames :
        /\ (IsPluginCall(name, "handle_packet") /\ ~plugin.started[name]) =>
              /\ plugin'.call.ok
              /\ plugin'[name] = plugin[name]
        /\ IsPluginCall(name, "stop") => Cleared(plugin', name)]_vars

(* ---------------------------------------------------------------------- *)
(* Claims about the RemoteDesktop session (SpecSession)                    *)
(* ---------------------------------------------------------------------- *)
\* The step is a call of op on the SessionManager (for stop_session, the
\* step in which it reads the state).
IsSessionCall(op) ==
    /\ rds'.call.n # rds.call.n
    /\ rds'.call.op = op

\* A call of op is allowed in the state allowed only: in any other state it
\* returns the invalid-state error and leaves state and info as they were.
OnlyIn(op, allowed) ==
    IsSessionCall(op) =>
        /\ (rds'.call.ret = "InvalidState") <=> (rds.m.state # allowed)
        /\ rds.m.state # allowed =>
              /\ rds'.m.state = rds.m.state
              /\ rds'.m.info = rds.m.info

\* C33: start_session is allowed only in Idle, pause_session only in Active,
\* resume_session only in Paused; in any other state the call returns the
\* invalid-state error and leaves state and info unchanged; stop_session in
\* Idle or Stopped returns Ok and changes nothing.
C33_Lifecycle ==
    [][/\ OnlyIn("start_session", "Idle")
       /\ OnlyIn("pause_session", "Active")
       /\ OnlyIn("resume_session", "Paused")
       /\ (IsSessionCall("stop_session") /\ rds.m.state \in {"Idle", "Stopped"}) =>
              /\ rds'.call.ret = "Ok"
              /\ rds'.m = rds.m
              /\ rds'.stop_pos = "idle"]_vars

\* pause_session was refused while a session was being served and paused.
C33_Witness ==
    /\ rds.call.op = "pause_session"
    /\ rds.call.ret = "InvalidState"
    /\ rds.call.pre = "Paused"
    /\ rds.m.state = "Paused"
    /\ rds.m.info

\* C40: once a stop_session that found a session has returned, the state
\* is Stopped and the session info is None, whatever the server task does.
C40_StoppedStays ==
    (/\ rds.call.op = "stop_session"
     /\ rds.call.ret = "Ok"
     /\ rds.call.pre \notin {"Idle", "Stopped"})
        => (rds.m.state = "Stopped" /\ ~rds.m.info)

(* ---------------------------------------------------------------------- *)
(* Claims about trust and attribution (SpecServer, SpecTrust)              *)
(* ---------------------------------------------------------------------- *)
\* C34: an accepted session that is attributed to a paired device d (it is
\* about to be installed, or is installed, under d) presented in its
\* handshake the certificate recorded for d.
C34_AttributedByCertificate ==
    \A s \in SessIds :
        (/\ sess[s].dir = "in"
         /\ sess[s].pos \in {"install", "loop"}
         /\ is_paired_device(registry, sess[s].device_id))
            => sess[s].peer_cert = registry[sess[s].device_id].certificate_data

\* C35: while the manager runs, its TLS server accepts a client certificate
\* exactly when it is the certificate of a device that is paired now.
C35_TrustFollowsPairing ==
    server.started =>
        \A c \in Certs :
            verify_client_cert(server.trusted_certs, c) <=> c \in paired_certs(registry)

(* ---------------------------------------------------------------------- *)
(* Claims about pairing per peer (Spec)                                    *)
(* ---------------------------------------------------------------------- *)
\* C36: an accept_pairing that follows the pair request of a device and
\* succeeds is for that device: the certificate it stores is stored for the
\* device whose request is pending, and for no other.
C36_PerPeer ==
    [][(/\ call.op = "handle_pairing_packet"
        /\ call.pair = "true"
        /\ call.pre_status = "Unpaired"
        /\ call.ok
        /\ call'.op = "accept_pairing"
        /\ call'.ok)
            => call'.device_id = call.device_id]_vars

\* C37: is_paired(d) is true only when the handler stores a certificate for
\* d.
C37_PairedMeansStored ==
    \A d \in Devices : is_paired(Self, d) => paired_devices[d] # None

(* ---------------------------------------------------------------------- *)
(* Claims about the session table (SpecTls)                                *)
(* ---------------------------------------------------------------------- *)
\* The session task s has identified its peer and has not ended.
Alive(s) == sess[s].pos \in {"install", "loop"}

\* C38: once Connected{d} has been sent by a session task, and that task
\* lives, the table has an entry for d, so that send_packet(d, p) finds one.
C38_InstalledWhenConnected ==
    \A i \in 1..Len(events) :
        (events[i].kind = "Connected" /\ Alive(events[i].sess))
            => connections[events[i].device_id] # NoSess

(* ---------------------------------------------------------------------- *)
(* Claims about stopping the discovery service (SpecQuiet)                 *)
(* ---------------------------------------------------------------------- *)
\* C39: once stop() has ended the broadcaster, no DeviceDiscovered,
\* DeviceUpdated or DeviceTimeout event is sent any more.
C39_QuietAfterStop ==
    [][~disc.broadcaster.running => disc'.events = disc.events]_vars

====
